---- MODULE Spec2Model ----
(***************************************************************************)
(* State-machine model of the WebSocket insurance chatbot: the per-        *)
(* connection orchestrator loop of main.py, the five campaign handlers    *)
(* (Campaign1..Campaign5), the lead sheet of Google_Sheet.py and the       *)
(* message de-duplication cache.  One connection (one conv_id) is          *)
(* modelled; every action handles one inbound WebSocket frame completely.  *)
(***************************************************************************)
EXTENDS Integers, Sequences, FiniteSets, TLC

\* ------------------------------------------------------------------------
\* Bounds of the exploration
\* ------------------------------------------------------------------------
\* number of clock ticks the exploration follows
MaxTicks == 2

\* number of consecutive sends of one button value that are told apart
MaxRepeats == 2

\* number of stored rows of one campaign visit that are told apart
MaxLeads == 2

\* seconds that pass between two observations of time.time()
TickSeconds == 35

\* ------------------------------------------------------------------------
\* Python values
\* ------------------------------------------------------------------------
None == "None"

\* dict helpers: a dict is a function whose DOMAIN is its set of keys
EmptyDict == [k \in {} |-> None]

Put(d, key, v) == [k \in DOMAIN d \cup {key} |-> IF k = key THEN v ELSE d[k]]

Update(d, e) == [k \in DOMAIN d \cup DOMAIN e |-> IF k \in DOMAIN e THEN e[k] ELSE d[k]]

Get(d, key, default) == IF key \in DOMAIN d THEN d[key] ELSE default

\* ------------------------------------------------------------------------
\* main.py: module constants
\* ------------------------------------------------------------------------
MESSAGE_CACHE_TTL == 60

\* campaign ids in the order of campaign_ids of the selection branch
campaign_ids == <<"masa_depan_anak_kita", "perlindungan_combo", "sgsa",
                  "tabung_perubatan", "tabung_warisan">>

Campaigns == {campaign_ids[i] : i \in 1..Len(campaign_ids)}

\* f"campaign_{campaign_id}"
CampaignStep(c) ==
    CASE c = "masa_depan_anak_kita" -> "campaign_masa_depan_anak_kita"
      [] c = "perlindungan_combo"   -> "campaign_perlindungan_combo"
      [] c = "sgsa"                 -> "campaign_sgsa"
      [] c = "tabung_perubatan"     -> "campaign_tabung_perubatan"
      [] c = "tabung_warisan"       -> "campaign_tabung_warisan"

\* The import loop of handle_websocket_connection keeps the handlers whose
\* module imports.  perlindungan_combo.py breaks an f-string over two lines
\* (lines 188-192), which only interpreters from Python 3.12 on accept; on
\* the others the import raises SyntaxError and the handler is missing.
Registries == {Campaigns, Campaigns \ {"perlindungan_combo"}}

VARIABLES
    campaign_handlers,   \* ids of the handlers the import loop registered
    step,                \* ConversationState.step
    user_data,           \* ConversationState.user_data
    active_campaign,     \* ConversationState.active_campaign
    campaign_state,      \* ConversationState.campaign_state (None or "set")
    conversation_active, \* loop flag of the connection
    states,              \* campaign id -> handler state kept for this conv_id
    message_cache,       \* cache key -> time it was stored
    ticks,               \* clock ticks so far; time.time() = ticks * TickSeconds
    last_msg,            \* the frame handled last
    dropped,             \* whether the duplicate check skipped that frame
    results,             \* what each process_message call made for it returned
    appended,            \* rows handed to append_row_to_sheet for it, and their fate
    sent,                \* frames sent to the client while handling it
    streak,              \* how many times in a row the click handled last has
                         \* arrived in a step after the estimate
    leads,               \* rows append_row_to_sheet stored since the campaign
                         \* was selected, counted over the handler's calls
    running,             \* conv_id of the task the event loop is executing, or None
    tasks,               \* conv_id -> where its handle_websocket_connection stands
    sockets,             \* conv_id -> frames its client wrote, and those still unread
    in_progress,         \* conv_id -> frames received and not yet answered
    active_conversations, \* the registry of main.py: conversation -> its state
    registry,            \* states and last_active of a campaign handler
    estimate             \* what a calculator was last called with, and its figures

vars == <<campaign_handlers, step, user_data, active_campaign, campaign_state,
          conversation_active, states, message_cache, ticks, last_msg, dropped,
          results, appended, sent, streak, leads, running, tasks, sockets, in_progress,
          active_conversations, registry, estimate>>

\* what the event loop and the registries hold
connections == <<running, tasks, sockets, in_progress, active_conversations, registry>>

\* the variables of one conversation and of its campaign handlers
conversation == <<campaign_handlers, step, user_data, active_campaign, campaign_state,
                  conversation_active, states, message_cache, ticks, last_msg, dropped,
                  results, appended, sent, streak, leads>>

NoMessage == [type |-> None, content |-> ""]

\* no calculator was called
NoEstimate == [calc |-> None, age |-> 0, amount |-> 0, level |-> 0, figures |-> <<>>]

\* the connections the server holds: one handle_websocket_connection task
\* for each
Sessions == {"conv_1", "conv_2"}

\* every task stands at its first await ws.receive_text()
\* and the registry holds the state websocket_endpoint made for each.  A
\* connection is known by its place and the number of the connection made
\* there: uuid4 gives every connection an id of its own.
Connected ==
    /\ running = None
    /\ tasks = [s \in Sessions |-> [at |-> "receive_text", data |-> 0, conv_id |-> 1]]
    /\ sockets = [s \in Sessions |-> [written |-> 0, unread |-> <<>>]]
    /\ in_progress = [s \in Sessions |-> {}]
    /\ active_conversations = [k \in {<<s, 1>> : s \in Sessions} |->
                                    [step |-> "get_name", user_data |-> EmptyDict]]
    /\ registry = [states |-> {}, last_active |-> EmptyDict]

NoResult == [type |-> None, keys |-> {}, text |-> "", buttons |-> <<>>, next_step |-> None]

\* the dict the last process_message call returned
result == IF results = <<>> THEN NoResult ELSE results[Len(results)]

Init ==
    /\ campaign_handlers \in Registries
    /\ step = "get_name"
    /\ user_data = EmptyDict
    /\ active_campaign = None
    /\ campaign_state = None
    /\ conversation_active = TRUE
    /\ states = EmptyDict
    /\ message_cache = EmptyDict
    /\ ticks = 0
    /\ last_msg = NoMessage
    /\ dropped = FALSE
    /\ results = <<>>
    /\ appended = <<>>
    /\ sent = <<>>
    /\ streak = 0
    /\ leads = 0
    /\ Connected
    /\ estimate = NoEstimate

\* ------------------------------------------------------------------------
\* Frames sent to the client
\* ------------------------------------------------------------------------
Frame(type, content, buttons) == [type |-> type, content |-> content, buttons |-> buttons]

\* send_text drops an empty message
send_text(message) == IF message = "" THEN <<>> ELSE <<Frame("message", message, <<>>)>>

send_buttons(message, buttons) == <<Frame("buttons", message, buttons)>>

send_question(message) == <<Frame("question", message, <<>>)>>

\* ------------------------------------------------------------------------
\* Text of the inbound frames: what the client can send
\* ------------------------------------------------------------------------
NameInputs == {"ali", ""}

DobInputs == {"15/06/1990", "25/12/1990", "1990-06-15", "31/02/1990"}

EmailInputs == {"Ali@Example.com", "ali.example.com"}

ConcernInputs == {"income_protection"}

LifeStageInputs == {"single"}

DependentsInputs == {"2", "many"}

CoverageInputs == {"none"}

BudgetInputs == {"201-500"}

\* ' '.join(word.capitalize() for word in name.split())
Capitalize(name) == CASE name = "ali" -> "Ali" [] OTHER -> name

\* str.lower()
Lower(s) == CASE s = "Ali@Example.com" -> "ali@example.com" [] OTHER -> s

\* re.match(r'^\d{2}/\d{2}/\d{4}$', dob)
MatchesDobFormat(dob) ==
    dob \in {"15/06/1990", "25/12/1990", "15/06/2015", "31/02/1990", "15/06/1900"}

\* day, month, year = map(int, dob.split('/'))
DobFields(dob) ==
    CASE dob = "15/06/1990" -> [day |-> 15, month |-> 6, year |-> 1990]
      [] dob = "25/12/1990" -> [day |-> 25, month |-> 12, year |-> 1990]
      [] dob = "15/06/2015" -> [day |-> 15, month |-> 6, year |-> 2015]
      [] dob = "31/02/1990" -> [day |-> 31, month |-> 2, year |-> 1990]
      [] dob = "15/06/1900" -> [day |-> 15, month |-> 6, year |-> 1900]

IsLeap(y) == (y % 4 = 0 /\ y % 100 # 0) \/ y % 400 = 0

DaysIn(m, y) ==
    IF m = 2 THEN (IF IsLeap(y) THEN 29 ELSE 28)
    ELSE IF m \in {4, 6, 9, 11} THEN 30 ELSE 31

\* datetime(year=year, month=month, day=day) does not raise ValueError
IsRealDate(f) ==
    /\ f.year \in 1..9999
    /\ f.month \in 1..12
    /\ f.day \in 1..DaysIn(f.month, f.year)

\* datetime.today() of the exploration
Today == [day |-> 4, month |-> 11, year |-> 2026]

calculate_age_by_years(dob) == Today.year - DobFields(dob).year

\* calculate_age; the decimal string it returns is kept as the number it spells
calculate_age(dob) ==
    LET f == DobFields(dob)
        before == Today.month < f.month \/ (Today.month = f.month /\ Today.day < f.day)
    IN  Today.year - f.year - (IF before THEN 1 ELSE 0)

\* re.match(r'^[a-zA-Z0-9_.+-]+@[a-zA-Z0-9-]+\.[a-zA-Z0-9-.]+$', email)
MatchesEmail(email) == email \in {"ali@example.com"}

concern_buttons == <<"income_protection", "medical_expenses", "education",
                     "wealth_building", "retirement">>

life_stage_buttons == <<"starting_family", "raising_children", "home_owner",
                        "pre_retirement", "single", "retired">>

dependents_buttons == <<"1", "2", "3", "4">>

coverage_buttons == <<"none", "basic", "some", "full">>

budget_buttons == <<"<200", "201-500", "501-1000", ">1000">>

\* the questions of the main conversation flow before the campaign menu;
\* each gives the step, the profile and the frames after the message
Onboard(st, ud, sd) == [step |-> st, user_data |-> ud, sent |-> sd]

get_name(ud, m) ==
    IF m = "" THEN Onboard("get_name", ud, send_text("Please enter your name."))
    ELSE Onboard("get_dob", Put(ud, "name", Capitalize(m)),
                 send_question("What is your date of birth? (DD/MM/YYYY)"))

\* a variant that stores the date before datetime() has accepted it
get_dob_storing_first(ud, m) ==
    IF ~MatchesDobFormat(m)
    THEN Onboard("get_dob", ud,
                 send_text("Please enter your date of birth in DD/MM/YYYY format:"))
    ELSE IF ~IsRealDate(DobFields(m))
    THEN Onboard("get_dob", Put(ud, "dob", m),
                 send_text("Please enter a valid date of birth (DD/MM/YYYY):"))
    ELSE Onboard("get_email", Put(Put(ud, "dob", m), "age", calculate_age(m)),
                 send_text("You are N years old. Thank you!")
                 \o send_question("What is your email address? (e.g., example@email.com)"))

get_dob(ud, m) ==
    IF ~MatchesDobFormat(m)
    THEN Onboard("get_dob", ud,
                 send_text("Please enter your date of birth in DD/MM/YYYY format:"))
    ELSE IF ~IsRealDate(DobFields(m))
    THEN Onboard("get_dob", ud,
                 send_text("Please enter a valid date of birth (DD/MM/YYYY):"))
    ELSE Onboard("get_email", Put(Put(ud, "dob", m), "age", calculate_age(m)),
                 send_text("You are N years old. Thank you!")
                 \o send_question("What is your email address? (e.g., example@email.com)"))

get_email(ud, m) ==
    IF ~MatchesEmail(Lower(m))
    THEN Onboard("get_email", ud, send_text("Please enter a valid email address (e.g., example@email.com):"))
    ELSE Onboard("get_financial_concern_response", Put(ud, "email", Lower(m)),
                 send_text("Thank you! Now, let's understand your financial goals better.")
                 \o send_buttons("What's your biggest financial concern right now?",
                                 concern_buttons))

get_financial_concern_response(ud, m) ==
    Onboard("get_life_stage", Put(ud, "primary_concern", m),
            send_buttons("Which best describes your current life stage?",
                         life_stage_buttons))

get_life_stage(ud, m) ==
    Onboard("get_dependents", Put(ud, "life_stage", m),
            send_buttons("How many people depend on your income?", dependents_buttons))

\* a variant that takes the coverage question as asked and answered
get_dependents_skipping(ud, m) ==
    Onboard("get_premium_budget", Put(ud, "dependents", m),
            send_buttons("What's your budget for monthly premiums? (RM)",
                         budget_buttons))

get_dependents(ud, m) ==
    Onboard("get_existing_coverage", Put(ud, "dependents", m),
            send_buttons("Do you have any existing life or medical insurance?",
                         coverage_buttons))

get_existing_coverage(ud, m) ==
    Onboard("get_premium_budget", Put(ud, "existing_coverage", m),
            send_buttons("What's your budget for monthly premiums? (RM)",
                         budget_buttons))

\* ------------------------------------------------------------------------
\* The messages a client sends inside a campaign, and the string functions
\* of Python the handlers apply to them, tabulated over these messages
\* ------------------------------------------------------------------------
Vocabulary ==
    {"main_menu", "restart", "start", "yes", "no", "hello", "get_quote", "yes_contact",
     "no_contact", "contact_agent", "yes_benefits", "no_thanks", "yes_coverage",
     "other_amount", "ask_question", "custom", "yes_estimate", "other_plans",
     "learn_more", "show_estimate", "not_now", "get_estimate", "2", "20", "500",
     "500000", "rm 500", "ali@example.com", "get_name"}

\* a number a parser found, or its failure to find one
Parsed(n) == [ok |-> TRUE, value |-> n]

NotParsed == [ok |-> FALSE, value |-> 0]

\* w in s, for the words the handlers look for
ContainsTable ==
    {<<"main_menu", "n">>, <<"yes", "y">>, <<"yes", "yes">>, <<"no", "n">>,
     <<"no", "no">>, <<"yes_contact", "n">>, <<"yes_contact", "y">>,
     <<"yes_contact", "yes">>, <<"no_contact", "n">>, <<"no_contact", "no">>,
     <<"contact_agent", "n">>, <<"yes_benefits", "n">>, <<"yes_benefits", "y">>,
     <<"yes_benefits", "yes">>, <<"no_thanks", "n">>, <<"no_thanks", "no">>,
     <<"yes_coverage", "y">>, <<"yes_coverage", "yes">>, <<"other_amount", "n">>,
     <<"ask_question", "n">>, <<"custom", "custom">>, <<"yes_estimate", "estimate">>,
     <<"yes_estimate", "y">>, <<"yes_estimate", "yes">>, <<"other_plans", "n">>,
     <<"learn_more", "n">>, <<"show_estimate", "estimate">>, <<"not_now", "n">>,
     <<"not_now", "no">>, <<"get_estimate", "estimate">>}

Contains(s, w) == <<s, w>> \in ContainsTable

\* str.isdigit()
isdigit(s) == s \in {"1", "2", "3", "4", "5", "9", "20", "500", "500000"}

\* the value of a string of digits
Digits(s) ==
    CASE s = "1" -> 1 [] s = "2" -> 2 [] s = "3" -> 3 [] s = "4" -> 4 [] s = "5" -> 5
      [] s = "9" -> 9 [] s = "20" -> 20 [] s = "500" -> 500 [] s = "500000" -> 500000

\* int(str(message).strip()), which raises ValueError on anything but digits
int_of(s) == IF isdigit(s) THEN Parsed(Digits(s)) ELSE NotParsed

\* int(re.findall(r'\d+', message)[0]): the first run of digits
first_number(s) ==
    IF isdigit(s) THEN Parsed(Digits(s))
    ELSE IF s = "rm 500" THEN Parsed(500) ELSE NotParsed

\* re.sub(r'\d+', '', message).strip()
without_digits(s) ==
    IF isdigit(s) THEN "" ELSE IF s = "rm 500" THEN "rm" ELSE s

\* float of the digits and dots of the message; "." alone is no number
tw_parse_amount(s) ==
    IF isdigit(s) THEN Parsed(Digits(s))
    ELSE IF s = "rm 500" THEN Parsed(500) ELSE NotParsed

\* the digits and dots of the text as a float, else a number word times 1000
sgsa_parse_income(s) ==
    IF isdigit(s) THEN Parsed(Digits(s))
    ELSE IF s = "rm 500" THEN Parsed(500) ELSE NotParsed

\* a number word of the message, else its first run of digits
sgsa_parse_age(s) ==
    IF isdigit(s) THEN Parsed(Digits(s))
    ELSE IF s = "rm 500" THEN Parsed(500) ELSE NotParsed

\* the email or phone pattern of _handle_contact_info
tw_is_contact(s) == s = "ali@example.com"

\* the first key of amount_map that equals the message or follows "rm" in it
mdk_amount_map(s) ==
    CASE s = "1" -> Parsed(200)
      [] s = "2" -> Parsed(300)
      [] s = "3" -> Parsed(400)
      [] s \in {"4", "500", "rm 500"} -> Parsed(500)
      [] OTHER -> NotParsed

\* ------------------------------------------------------------------------
\* What a campaign handler hands back
\* ------------------------------------------------------------------------
\* the dict returned by process_message: its 'type', the keys it holds, the
\* text under 'response'/'content'/'message', the button values, 'next_step'
Result(type, keys, text, buttons, next_step) ==
    [type |-> type, keys |-> keys, text |-> text, buttons |-> buttons,
     next_step |-> next_step]

\* one call of process_message: the handler state afterwards, the dict
\* returned, the frames the handler wrote to the socket itself, the rows it
\* handed to append_row_to_sheet
Out(st, r, frames, rows) == [state |-> st, result |-> r, frames |-> frames, rows |-> rows]

\* a handler writing a frame to the socket itself
ws_send_text(content) == <<Frame("message", content, <<>>)>>

CommonColumns_plan_first(ud, default_plan) ==
    <<Get(ud, "selected_plan", default_plan), Get(ud, "name", "N/A"), Get(ud, "dob", ""),
      Get(ud, "email", ""), Get(ud, "primary_concern", ""), Get(ud, "life_stage", ""),
      Get(ud, "dependents", ""), Get(ud, "existing_coverage", ""),
      Get(ud, "premium_budget", "")>>

\* the nine profile columns every lead row starts with
CommonColumns(ud, default_plan) ==
    <<Get(ud, "name", "N/A"), Get(ud, "dob", ""), Get(ud, "email", ""),
      Get(ud, "primary_concern", ""), Get(ud, "life_stage", ""),
      Get(ud, "dependents", ""), Get(ud, "existing_coverage", ""),
      Get(ud, "premium_budget", ""), Get(ud, "selected_plan", default_plan)>>

Row(common, extra) == [common |-> common, extra |-> extra]

\* ------------------------------------------------------------------------
\* Campaign1/sgsa.py: Satu Gaji Satu Harapan
\* ------------------------------------------------------------------------
sgsa_CampaignState == [current_step |-> "welcome", user_data |-> EmptyDict,
                       welcome_shown |-> FALSE]

sgsa_get_state(ss) == IF "sgsa" \in DOMAIN ss THEN ss["sgsa"] ELSE sgsa_CampaignState

sgsa_create_button_response(content, buttons, next_step) ==
    Result("buttons", {"type", "response", "content", "buttons", "next_step"},
           content, buttons, next_step)

sgsa_reset_to_main ==
    Result("reset_to_main", {"type", "response", "content", "reset_to_main"},
           "Returning to main menu...", <<>>, None)

sgsa_welcome_response ==
    sgsa_create_button_response("sgsa welcome", <<"yes", "no">>, "welcome_response")

sgsa_start(st) ==
    Out([st EXCEPT !.current_step = "welcome", !.welcome_shown = TRUE],
        sgsa_welcome_response, <<>>, <<>>)

sgsa_show_benefits ==
    Result("buttons", {"type", "response", "content", "buttons", "next_step"},
           "sgsa benefits", <<"get_quote", "no">>, "premium_decision")

sgsa_handle_welcome_response(st, text_input) ==
    IF text_input \in {"yes", "y", "ya", "yeah", "yes, tell me more"}
    THEN Out([st EXCEPT !.current_step = "awaiting_premium_decision"],
             sgsa_show_benefits, <<>>, <<>>)
    ELSE IF text_input \in {"no", "n", "no thanks"}
    THEN Out([st EXCEPT !.current_step = "complete"],
             Result("buttons", {"type", "response", "buttons", "completed"},
                    "sgsa thank you for your interest", <<"main_menu">>, None),
             <<>>, <<>>)
    ELSE Out(st, sgsa_welcome_response, <<>>, <<>>)

sgsa_handle_welcome(st, text_input) ==
    IF st.welcome_shown THEN sgsa_handle_welcome_response(st, text_input)
    ELSE Out([st EXCEPT !.welcome_shown = TRUE], sgsa_welcome_response, <<>>, <<>>)

sgsa_handle_premium_decision(st, text_input) ==
    IF text_input \in {"yes", "y", "ya", "yeah", "show coverage", "show me", "get_quote"}
    THEN Out([st EXCEPT !.current_step = "get_annual_income"],
             Result("message", {"type", "response", "next_step"},
                    "sgsa ask annual income", <<>>, "get_annual_income"),
             <<>>, <<>>)
    ELSE IF text_input \in {"no", "n", "no thanks"}
    THEN Out([st EXCEPT !.current_step = "complete"],
             Result("buttons", {"type", "response", "buttons", "completed"},
                    "sgsa no problem", <<"main_menu">>, None),
             <<>>, <<>>)
    ELSE Out([st EXCEPT !.current_step = "awaiting_premium_decision"],
             Result("buttons", {"type", "response", "buttons", "next_step"},
                    "sgsa not sure, benefits", sgsa_show_benefits.buttons,
                    sgsa_show_benefits.next_step),
             <<>>, <<>>)

\* age from the 'dob' of the profile, when the date parses
sgsa_age_from_dob(ud) ==
    IF Get(ud, "dob", "") = "" THEN NotParsed
    ELSE IF MatchesDobFormat(ud["dob"]) /\ IsRealDate(DobFields(ud["dob"]))
    THEN Parsed(calculate_age(ud["dob"])) ELSE NotParsed

sgsa_handle_get_annual_income(st, message_text) ==
    LET annual_income == sgsa_parse_income(message_text)
        stored == [st EXCEPT !.user_data = Put(@, "annual_income", annual_income.value)]
        age == sgsa_age_from_dob(st.user_data)
    IN  IF ~annual_income.ok
        THEN Out(st, Result(None, {"response", "next_step"},
                            "sgsa income error", <<>>, "get_annual_income"), <<>>, <<>>)
        ELSE IF annual_income.value <= 0
        THEN Out(st, Result(None, {"response", "next_step"},
                            "sgsa income must be positive", <<>>, "get_annual_income"),
                 <<>>, <<>>)
        ELSE IF age.ok
        THEN Out([stored EXCEPT !.user_data = Put(@, "age", age.value),
                                !.current_step = "get_years_coverage"],
                 Result(None, {"response", "next_step"},
                        "sgsa ask years of coverage", <<>>, "get_years_coverage"),
                 <<>>, <<>>)
        ELSE Out([stored EXCEPT !.current_step = "get_age"],
                 Result(None, {"response", "next_step"}, "sgsa ask age", <<>>, "get_age"),
                 <<>>, <<>>)

sgsa_handle_get_age(st, message, ws) ==
    LET dob_age == sgsa_age_from_dob(st.user_data)
        age == sgsa_parse_age(message)
        waiting == {"response", "campaign_data", "waiting_for_response"}
        reply(text, keys, next) ==
            Result(None, keys, text, <<>>, next)
        frames(text) == IF ws THEN ws_send_text(text) ELSE <<>>
    IN  IF dob_age.ok
        THEN Out([st EXCEPT !.user_data = Put(@, "age", dob_age.value),
                            !.current_step = "get_years_coverage"],
                 reply("sgsa ask years of coverage", waiting \cup {"next_step"},
                       "get_years_coverage"),
                 frames("sgsa ask years of coverage"), <<>>)
        ELSE IF ~age.ok
        THEN Out(st, reply("sgsa enter a valid age", waiting, None),
                 frames("sgsa enter a valid age"), <<>>)
        ELSE IF age.value < 18 \/ age.value > 70
        THEN Out(st, reply("sgsa age between 18 and 70", waiting, None),
                 frames("sgsa age between 18 and 70"), <<>>)
        ELSE Out([st EXCEPT !.user_data = Put(@, "age", age.value),
                            !.current_step = "get_years_coverage"],
                 reply("sgsa ask years of coverage", waiting \cup {"next_step"},
                       "get_years_coverage"),
                 frames("sgsa ask years of coverage"), <<>>)

\* a value of the dict that "not value" takes for missing: absent or zero
sgsa_falsy(ud, key) == key \notin DOMAIN ud \/ ud[key] = 0

sgsa_handle_calculate_premium(st, ws, sheet_ok) ==
    LET row_data == Row(CommonColumns(st.user_data, "sgsa"),
                        <<st.user_data["annual_income"],
                          st.user_data["years_of_coverage"]>>)
    IN  IF \/ sgsa_falsy(st.user_data, "annual_income")
           \/ sgsa_falsy(st.user_data, "age")
           \/ sgsa_falsy(st.user_data, "years_of_coverage")
        THEN Out(st,
                 Result(None, {"response", "campaign_data", "waiting_for_response",
                               "next_step"},
                        "sgsa error calculating premium", <<>>, "welcome"),
                 IF ws THEN ws_send_text("sgsa error calculating premium") ELSE <<>>,
                 <<>>)
        ELSE Out([st EXCEPT !.current_step = "handle_agent_decision"],
                 Result("buttons", {"type", "response", "content", "buttons",
                                    "next_step", "campaign_data"},
                        "sgsa premium estimate", <<"yes_contact", "no_contact">>,
                        "handle_agent_decision"),
                 <<>>, <<row_data>>)

sgsa_handle_years_coverage(st, message, ws, sheet_ok) ==
    LET years == int_of(message)
        waiting == {"response", "campaign_data", "waiting_for_response"}
        frames(text) == IF ws THEN ws_send_text(text) ELSE <<>>
    IN  IF ~years.ok
        THEN Out(st, Result(None, waiting, "sgsa enter a valid number of years", <<>>, None),
                 frames("sgsa enter a valid number of years"), <<>>)
        ELSE IF years.value < 1 \/ years.value > 50
        THEN Out(st, Result(None, waiting, "sgsa years between 1 and 50", <<>>, None),
                 frames("sgsa years between 1 and 50"), <<>>)
        ELSE sgsa_handle_calculate_premium(
                 [st EXCEPT !.user_data = Put(@, "years_of_coverage", years.value),
                            !.current_step = "calculate_premium"],
                 ws, sheet_ok)

\* a variant that stores the lead once more when the agent is asked for
sgsa_handle_agent_decision_storing(st, message) ==
    LET message_lower == Lower(message)
        keys == {"type", "response", "content", "buttons", "next_step", "campaign_data"}
        row_data == Row(CommonColumns(st.user_data, "sgsa"),
                        <<st.user_data["annual_income"],
                          st.user_data["years_of_coverage"]>>)
    IN  IF message_lower \in {"yes", "y", "ya", "yeah", "yes_contact", "contact_agent"}
        THEN Out(st, Result("buttons", keys, "sgsa an agent will contact you",
                            <<"main_menu">>, "handle_agent_decision"), <<>>, <<row_data>>)
        ELSE IF message_lower \in {"no", "n", "no_contact", "no thanks"}
        THEN Out(st, Result("buttons", keys, "sgsa no problem, main menu below",
                            <<"main_menu">>, "handle_agent_decision"), <<>>, <<>>)
        ELSE IF message_lower = "main_menu" \/ message_lower = "restart"
        THEN Out(st, sgsa_reset_to_main, <<>>, <<>>)
        ELSE Out(st, Result("buttons", keys, "sgsa would you like an agent to contact you",
                            <<"contact_agent", "no_contact", "main_menu">>,
                            "offer_agent_contact"), <<>>, <<>>)

sgsa_handle_agent_decision(st, message) ==
    LET message_lower == Lower(message)
        keys == {"type", "response", "content", "buttons", "next_step", "campaign_data"}
    IN  IF message_lower \in {"yes", "y", "ya", "yeah", "yes_contact", "contact_agent"}
        THEN Out(st, Result("buttons", keys, "sgsa an agent will contact you",
                            <<"main_menu">>, "handle_agent_decision"), <<>>, <<>>)
        ELSE IF message_lower \in {"no", "n", "no_contact", "no thanks"}
        THEN Out(st, Result("buttons", keys, "sgsa no problem, main menu below",
                            <<"main_menu">>, "handle_agent_decision"), <<>>, <<>>)
        ELSE IF message_lower = "main_menu" \/ message_lower = "restart"
        THEN Out(st, sgsa_reset_to_main, <<>>, <<>>)
        ELSE Out(st, Result("buttons", keys, "sgsa would you like an agent to contact you",
                            <<"contact_agent", "no_contact", "main_menu">>,
                            "offer_agent_contact"), <<>>, <<>>)

\* the steps for which the class has a method named _handle_<step>
sgsa_named_steps == {"welcome", "welcome_response", "premium_decision",
                     "get_annual_income", "get_age", "years_coverage",
                     "calculate_premium", "agent_decision"}

\* if 'next_step' in response: state.current_step = response['next_step']
sgsa_apply_next_step(out) ==
    IF "next_step" \in out.result.keys
    THEN [out EXCEPT !.state.current_step = out.result.next_step]
    ELSE out

sgsa_named_handler(st, message_text, sheet_ok) ==
    CASE st.current_step = "welcome" -> sgsa_handle_welcome(st, message_text)
      [] st.current_step = "welcome_response" -> sgsa_handle_welcome_response(st, message_text)
      [] st.current_step = "premium_decision" -> sgsa_handle_premium_decision(st, message_text)
      [] st.current_step = "get_annual_income" -> sgsa_handle_get_annual_income(st, message_text)
      [] st.current_step = "get_age" -> sgsa_handle_get_age(st, message_text, FALSE)
      [] st.current_step = "years_coverage" -> sgsa_handle_years_coverage(st, message_text, FALSE, sheet_ok)
      [] st.current_step = "calculate_premium" -> sgsa_handle_calculate_premium(st, FALSE, sheet_ok)
      [] st.current_step = "agent_decision" -> sgsa_handle_agent_decision(st, message_text)

\* the branch of step "complete": state["data"] raises TypeError after the
\* closing text went out, and the outer except answers
sgsa_complete(st) ==
    Out(st,
        Result(None, {"response", "error", "completed", "next_step"},
               "An error occurred while processing your message. Please try again.",
               <<>>, "welcome"),
        ws_send_text("sgsa thank you for considering"), <<>>)

sgsa_unknown_step(st) ==
    Out(st, Result(None, {"response", "next_step"},
                   "I'm not sure how to process that. Let's start over.", <<>>, "welcome"),
        <<>>, <<>>)

sgsa_step(st, message, message_text, sheet_ok) ==
    IF st.current_step = "premium_estimation"
    THEN sgsa_unknown_step([st EXCEPT !.current_step = "awaiting_premium_decision"])
    ELSE IF st.current_step \in sgsa_named_steps
    THEN sgsa_apply_next_step(sgsa_named_handler(st, message_text, sheet_ok))
    ELSE IF st.current_step = "get_years_coverage"
    THEN sgsa_handle_years_coverage(st, message, TRUE, sheet_ok)
    ELSE IF st.current_step = "handle_agent_decision"
    THEN sgsa_handle_agent_decision(st, message)
    ELSE IF st.current_step = "complete" THEN sgsa_complete(st)
    ELSE sgsa_unknown_step(st)

sgsa_process_message(ss, message, ud, sheet_ok) ==
    LET message_text == Lower(message)
        state == [sgsa_get_state(ss) EXCEPT
                      !.user_data = IF ud = EmptyDict THEN @ ELSE Update(@, ud)]
    IN  IF message_text = "main_menu"
        THEN Out(sgsa_CampaignState, sgsa_reset_to_main, <<>>, <<>>)
        ELSE IF message_text = "restart" THEN sgsa_start(sgsa_CampaignState)
        ELSE IF message_text = "start" THEN sgsa_start(state)
        ELSE sgsa_step(state, message, message_text, sheet_ok)

\* ------------------------------------------------------------------------
\* Campaign2/tabung_warisan.py: Tabung Warisan
\* ------------------------------------------------------------------------
TabungWarisanState == [current_step |-> "welcome", user_data |-> EmptyDict,
                       user_name |-> "", user_age |-> 0, desired_legacy |-> 0,
                       welcome_shown |-> FALSE]

tw_get_state(ss) ==
    IF "tabung_warisan" \in DOMAIN ss THEN ss["tabung_warisan"] ELSE TabungWarisanState

tw_create_response(content, next_step) ==
    Result("message", {"type", "text", "content", "next_step", "campaign_data"},
           content, <<>>, next_step)

tw_get_welcome_response ==
    Result("message", {"type", "text", "content", "buttons", "next_step"},
           "tw welcome", <<"yes_benefits", "no_thanks">>, "handle_welcome_response")

tw_get_benefits_response ==
    Result("buttons", {"type", "text", "content", "buttons", "next_step"},
           "tw benefits", <<"yes_coverage", "no_thanks">>, "handle_benefits_response")

tw_reset_to_main ==
    Result("reset_to_main", {"type", "response", "content", "reset_to_main"},
           "Returning to main menu...", <<>>, None)

tw_no_problem ==
    Result("buttons", {"type", "content", "buttons"},
           "tw no problem, main menu below", <<"main_menu">>, None)

tw_negative == {"no", "no_thanks", "maybe later", "later", "tidak", "tak", "x", "nope"}

tw_legacy_buttons == <<"500000", "1000000", "1500000", "2000000", "other_amount">>

tw_premium_response ==
    Result("buttons", {"type", "content", "next_step", "buttons"},
           "tw premium estimate", <<"contact_agent", "no_contact">>, "offer_agent_contact")

\* 18 <= state.user_age <= 70, the age of the profile
tw_age_known(st) == st.user_age # 0 /\ 18 <= st.user_age /\ st.user_age <= 70

tw_get_legacy_amount(st, message, sheet_ok) ==
    LET amount == tw_parse_amount(message)
        noted == [st EXCEPT !.desired_legacy = amount.value, !.current_step = "get_age"]
        row_data == Row(CommonColumns([k \in DOMAIN st.user_data \ {"selected_plan"} |->
                                           st.user_data[k]], "tabung_warisan"),
                        <<None, None, amount.value>>)
    IN  IF Lower(message) \in {"other", "other amount", "other_amount"}
        THEN Out([st EXCEPT !.current_step = "get_custom_legacy_amount"],
                 tw_create_response("tw enter desired legacy amount",
                                    "get_custom_legacy_amount"), <<>>, <<>>)
        ELSE IF ~amount.ok
        THEN Out(st, Result("buttons", {"type", "content", "next_step", "buttons"},
                            "Please select a valid legacy amount:", tw_legacy_buttons,
                            "get_legacy_amount"), <<>>, <<>>)
        ELSE IF tw_age_known(noted)
        THEN Out([noted EXCEPT !.current_step = "calculate_premium"],
                 tw_premium_response, <<>>, <<row_data>>)
        ELSE Out(noted, tw_create_response("tw ask age", "get_age"), <<>>, <<>>)

tw_get_custom_legacy_amount(st, message) ==
    LET amount == tw_parse_amount(message)
        noted == [st EXCEPT !.desired_legacy = amount.value, !.current_step = "get_age"]
    IN  IF ~amount.ok
        THEN Out(st, tw_create_response("tw enter a valid amount",
                                        "get_custom_legacy_amount"), <<>>, <<>>)
        ELSE IF amount.value < 1000
        THEN Out(st, tw_create_response("tw minimum legacy amount is RM 1,000",
                                        "get_custom_legacy_amount"), <<>>, <<>>)
        ELSE IF tw_age_known(noted)
        THEN Out([noted EXCEPT !.current_step = "calculate_premium"],
                 tw_premium_response, <<>>, <<>>)
        ELSE Out(noted, tw_create_response("tw ask age", "get_age"), <<>>, <<>>)

tw_handle_age(st, message) ==
    LET age == int_of(message)
    IN  IF age.ok /\ 18 <= age.value /\ age.value <= 70
        THEN Out([st EXCEPT !.user_age = age.value, !.current_step = "offer_agent_contact"],
                 tw_premium_response, <<>>, <<>>)
        ELSE Out(st, Result("message", {"type", "content", "next_step"},
                            "Please enter a valid age between 18 and 70.", <<>>, "get_age"),
                 <<>>, <<>>)

tw_handle_agent_contact(st, message) ==
    LET message_lower == Lower(message)
    IN  IF message_lower = "contact_agent"
        THEN Out([st EXCEPT !.current_step = "get_contact_info"],
                 Result("message", {"type", "content", "next_step"},
                        "tw provide contact information", <<>>, "get_contact_info"),
                 <<>>, <<>>)
        ELSE IF message_lower = "no_contact"
        THEN Out([st EXCEPT !.current_step = "main_menu"],
                 Result("buttons", {"type", "content", "buttons", "next_step"},
                        "tw what would you like to do next",
                        <<"main_menu", "ask_question">>, "main_menu"), <<>>, <<>>)
        ELSE IF message_lower = "main_menu" \/ message_lower = "restart"
        THEN Out(st, tw_reset_to_main, <<>>, <<>>)
        ELSE Out(st, Result("buttons", {"type", "text", "content", "next_step", "buttons"},
                            "tw would you like an agent to contact you",
                            <<"contact_agent", "no_contact", "main_menu">>,
                            "offer_agent_contact"), <<>>, <<>>)

tw_handle_contact_info(st, message) ==
    IF ~tw_is_contact(message)
    THEN Out(st, Result("message", {"type", "content", "next_step"},
                        "Please enter a valid phone number or email address:", <<>>,
                        "get_contact_info"), <<>>, <<>>)
    ELSE Out([st EXCEPT !.user_data = Put(@, "contact_info", message),
                        !.current_step = "contact_confirmed"],
             Result("buttons", {"type", "content", "next_step", "buttons"},
                    "tw an agent will contact you soon",
                    <<"main_menu", "ask_question">>, "contact_confirmed"), <<>>, <<>>)

tw_step(st, message, sheet_ok) ==
    LET msg_lower == Lower(message)
    IN  IF st.current_step \in {"", "welcome"}
        THEN Out([st EXCEPT !.current_step = "handle_welcome_response",
                            !.welcome_shown = TRUE],
                 tw_get_welcome_response, <<>>, <<>>)
        ELSE IF st.current_step = "handle_welcome_response"
        THEN (IF msg_lower \in {"yes", "yes_benefits"}
              THEN Out([st EXCEPT !.current_step = "handle_benefits_response"],
                       tw_get_benefits_response, <<>>, <<>>)
              ELSE IF msg_lower \in {"no", "no_thanks"}
              THEN Out(st, tw_no_problem, <<>>, <<>>)
              ELSE Out(st, tw_get_welcome_response, <<>>, <<>>))
        ELSE IF st.current_step = "handle_benefits_response"
        THEN (IF msg_lower \in {"yes", "yes_coverage"}
              THEN Out([st EXCEPT !.current_step = "get_legacy_amount"],
                       Result("buttons", {"type", "text", "content", "buttons", "next_step"},
                              "tw ask legacy amount", tw_legacy_buttons,
                              "get_legacy_amount"), <<>>, <<>>)
              ELSE IF msg_lower \in tw_negative
              THEN Out(st, tw_no_problem, <<>>, <<>>)
              ELSE Out(st, tw_get_benefits_response, <<>>, <<>>))
        ELSE IF st.current_step = "get_legacy_amount"
        THEN tw_get_legacy_amount(st, message, sheet_ok)
        ELSE IF st.current_step = "get_custom_legacy_amount"
        THEN tw_get_custom_legacy_amount(st, message)
        ELSE IF st.current_step = "get_age" THEN tw_handle_age(st, message)
        ELSE IF st.current_step = "offer_agent_contact"
        THEN tw_handle_agent_contact(st, message)
        ELSE IF st.current_step = "get_contact_info"
        THEN tw_handle_contact_info(st, message)
        ELSE IF st.current_step \in {"end_conversation", "contact_confirmed"}
        THEN Out(st, Result("buttons", {"type", "content", "next_step", "buttons"},
                            "tw thank you for your interest", <<"main_menu">>,
                            "main_menu"), <<>>, <<>>)
        ELSE Out(TabungWarisanState, tw_reset_to_main, <<>>, <<>>)

tw_process_message(ss, message, ud, sheet_ok) ==
    LET got == tw_get_state(ss)
        state == IF ud = EmptyDict THEN got
                 ELSE [got EXCEPT
                          !.user_data = Update(@, ud),
                          !.user_age = IF "age" \in DOMAIN ud THEN ud["age"] ELSE @,
                          !.user_name = IF Get(ud, "name", "") # "" THEN ud["name"] ELSE @]
    IN  IF Lower(message) \in {"main_menu", "restart", "start"}
        THEN Out(state,
                 Result("reset_to_main", {"type", "content"},
                        "Returning to main menu. Let's start again! What's your name?",
                        <<>>, None), <<>>, <<>>)
        ELSE tw_step(state, message, sheet_ok)

\* ------------------------------------------------------------------------
\* Campaign3/masa_depan_anak_kita.py: Masa Depan Anak Kita
\* ------------------------------------------------------------------------
mdk_CampaignState == [current_step |-> "welcome", user_data |-> EmptyDict,
                      child_age |-> NotParsed, monthly_saving |-> NotParsed]

mdk_get_state(ss) ==
    IF "masa_depan_anak_kita" \in DOMAIN ss THEN ss["masa_depan_anak_kita"]
    ELSE mdk_CampaignState

mdk_is_affirmative(text) ==
    \E w \in {"yes", "y", "ya", "yeah", "yup", "yep", "sure", "ok", "okay",
              "alright", "continue", "proceed", "affirmative", "certainly",
              "definitely", "absolutely", "yes please", "of course"} : Contains(text, w)

mdk_is_negative(text) ==
    \E w \in {"no", "n", "nope", "nah", "no thanks", "not now", "not yet",
              "later", "maybe later", "i'll pass", "skip", "stop", "cancel",
              "exit", "quit", "end"} : Contains(text, w)

mdk_reply(type, content, buttons, next_step) ==
    Result(type, {"type", "content", "campaign_data", "next_step"}
                 \cup (IF buttons = <<>> THEN {} ELSE {"buttons"}),
           content, buttons, next_step)

mdk_start(st) ==
    Out(mdk_CampaignState,
        Result("buttons", {"type", "content", "message", "text", "buttons",
                           "campaign_data", "next_step"},
               "mdk welcome", <<"yes", "no">>, "welcome"), <<>>, <<>>)

mdk_plan_explanation(st) ==
    Out([st EXCEPT !.current_step = "ask_about_estimation"],
        mdk_reply("buttons", "mdk plan explanation", <<"yes", "no">>,
                  "ask_about_estimation"), <<>>, <<>>)

mdk_end_options(st, content) ==
    Out([st EXCEPT !.current_step = "end_options"],
        mdk_reply("buttons", content, <<"main_menu">>, "end_options"), <<>>, <<>>)

mdk_saving_options == <<"200", "300", "400", "500", "custom">>

mdk_offer_agent == <<"contact_agent", "no_contact">>

\* the projection is shown, the lead row handed to the sheet, the step "complete"
mdk_projection(st, sheet_ok) ==
    LET row_data == Row(CommonColumns([k \in DOMAIN st.user_data \ {"selected_plan"} |->
                                           st.user_data[k]], "masa_depan_anak_kita"),
                        <<None, None, None,
                          IF st.child_age.ok THEN st.child_age.value ELSE None,
                          st.monthly_saving.value>>)
    IN  Out([st EXCEPT !.current_step = "complete"],
            mdk_reply("buttons", "mdk education fund projection", mdk_offer_agent,
                      "complete"), <<>>, <<row_data>>)

mdk_calculate_results(st, sheet_ok) ==
    IF ~st.child_age.ok
    THEN Out(st, mdk_reply("message", "I encountered an error calculating your results. Please try again.",
                           <<>>, "error"), <<>>, <<>>)
    ELSE mdk_projection(st, sheet_ok)

mdk_get_child_age(st, message) ==
    LET numbers == first_number(message)
    IN  IF message \in {"help", "?"}
        THEN Out(st, mdk_reply("message", "mdk enter your child's current age", <<>>,
                               "waiting_for_age"), <<>>, <<>>)
        ELSE IF message \in {"start over", "restart"}
        THEN Out([mdk_CampaignState EXCEPT !.current_step = "ask_about_plan"],
                 mdk_reply("buttons", "mdk let's start over", <<"yes", "no">>,
                           "waiting_for_plan_response"), <<>>, <<>>)
        ELSE IF ~numbers.ok \/ numbers.value < 0 \/ numbers.value > 17
        THEN Out(st, mdk_reply("message", "mdk child's age must be between 0 and 17",
                               <<>>, "waiting_for_age"), <<>>, <<>>)
        ELSE Out([st EXCEPT !.child_age = numbers, !.current_step = "get_monthly_saving"],
                 mdk_reply("buttons", "mdk how much would you like to save monthly",
                           mdk_saving_options, "waiting_for_saving"), <<>>, <<>>)

\* the amount the message picks among the four saving options
mdk_option_amount(message) ==
    LET mapped == mdk_amount_map(message)
        numbers == first_number(message)
    IN  IF mapped.ok THEN mapped
        ELSE IF numbers.ok /\ numbers.value \in {200, 300, 400, 500} THEN numbers
        ELSE NotParsed

mdk_get_monthly_saving(st, message, sheet_ok) ==
    LET amount == mdk_option_amount(message)
    IN  IF Contains(message, "custom")
        THEN Out([st EXCEPT !.current_step = "get_custom_saving"],
                 mdk_reply("message", "mdk enter your desired monthly saving amount",
                           <<>>, "waiting_for_custom_saving"), <<>>, <<>>)
        ELSE IF message \in {"yes", "y", "no", "n"}
        THEN Out(st, mdk_reply("message", "mdk select one of the monthly saving options",
                               <<>>, "get_monthly_saving"), <<>>, <<>>)
        ELSE IF amount.ok /\ amount.value >= 100
        THEN mdk_calculate_results([st EXCEPT !.monthly_saving = amount,
                                              !.current_step = "calculate_results"],
                                   sheet_ok)
        ELSE Out(st, mdk_reply("message", "mdk select one of the options or custom",
                               <<>>, "get_monthly_saving"), <<>>, <<>>)

mdk_get_custom_saving(st, message, sheet_ok) ==
    LET numbers == first_number(message)
    IN  IF message \in {"back", "options", "show options"}
        THEN Out([st EXCEPT !.current_step = "get_monthly_saving"],
                 mdk_reply("buttons", "Please select a monthly saving amount:",
                           mdk_saving_options, "get_monthly_saving"), <<>>, <<>>)
        ELSE IF ~numbers.ok \/ numbers.value < 100 \/ numbers.value > 10000
        THEN Out(st, mdk_reply("message", "mdk enter a valid amount between RM 100 and RM 10,000",
                               <<>>, "get_custom_saving"), <<>>, <<>>)
        ELSE mdk_projection([st EXCEPT !.monthly_saving = numbers], sheet_ok)

mdk_complete(st, message) ==
    IF message = "contact_agent"
    THEN Out(st, mdk_reply("buttons", "mdk our agent will get to you soon",
                           <<"main_menu">>, "contact_confirmation"), <<>>, <<>>)
    ELSE IF message = "request_contact"
    THEN Out(st, mdk_reply("buttons", "mdk would you like an agent to contact you",
                           mdk_offer_agent, "complete"), <<>>, <<>>)
    ELSE IF message = "no_contact" \/ message = "no"
    THEN Out(st, mdk_reply("buttons", "mdk thank you, return to the main menu?",
                           <<"main_menu">>, "end_options"), <<>>, <<>>)
    ELSE IF mdk_is_affirmative(message) \/ message = "restart"
    THEN Out(mdk_CampaignState,
             mdk_reply("message", "mdk welcome", <<"yes", "no">>, "welcome"), <<>>, <<>>)
    ELSE Out(st, mdk_reply("buttons", "mdk would you like an agent to contact you",
                           mdk_offer_agent, "complete"), <<>>, <<>>)

\* the step is none of those the method knows: back to "welcome"
mdk_unknown_state(st) ==
    Out([st EXCEPT !.current_step = "welcome"],
        mdk_reply("message", "I'm sorry, I got a bit lost. Let's start over.", <<>>,
                  "welcome"), <<>>, <<>>)

mdk_step(st, message, sheet_ok) ==
    IF st.current_step = "welcome"
    THEN (IF message = "yes" \/ mdk_is_affirmative(message)
          THEN mdk_plan_explanation(st)
          ELSE IF message = "no" \/ mdk_is_negative(message)
          THEN mdk_end_options(st, "mdk thank you for your interest")
          ELSE Out(st, mdk_reply("buttons", "mdk not sure I understand", <<"yes", "no">>,
                                 "welcome"), <<>>, <<>>))
    ELSE IF st.current_step = "ask_about_plan"
    THEN (IF mdk_is_affirmative(message) \/ message = "yes"
          THEN mdk_plan_explanation(st)
          ELSE mdk_end_options(st, "mdk no problem"))
    ELSE IF st.current_step \in {"ask_about_estimation", "waiting_for_estimation_response"}
    THEN (IF mdk_is_affirmative(message) \/ Contains(message, "estimate") \/ message = "yes"
          THEN Out([st EXCEPT !.current_step = "get_child_age"],
                   mdk_reply("question", "mdk enter your child's current age", <<>>,
                             "get_child_age"), <<>>, <<>>)
          ELSE mdk_end_options(st, "mdk no problem"))
    ELSE IF st.current_step = "welcome_response"
    THEN (IF message \in {"yes", "y"}
          THEN Out([st EXCEPT !.current_step = "get_child_age"],
                   mdk_reply("message", "mdk enter your child's age", <<>>,
                             "waiting_for_age"), <<>>, <<>>)
          ELSE Out([st EXCEPT !.current_step = "end"],
                   Result(None, {"response", "campaign_data", "next_step"},
                          "mdk no problem, have a great day", <<>>, "complete"),
                   <<>>, <<>>))
    ELSE IF st.current_step \in {"get_child_age", "waiting_for_age"}
    THEN mdk_get_child_age(st, message)
    ELSE IF st.current_step = "get_monthly_saving"
    THEN mdk_get_monthly_saving(st, message, sheet_ok)
    ELSE IF st.current_step = "get_custom_saving"
    THEN mdk_get_custom_saving(st, message, sheet_ok)
    ELSE IF st.current_step = "complete" THEN mdk_complete(st, message)
    ELSE mdk_unknown_state(st)

mdk_process_message(ss, message_content, ud, sheet_ok) ==
    LET got == mdk_get_state(ss)
        state == IF ud = EmptyDict THEN got ELSE [got EXCEPT !.user_data = Update(@, ud)]
        message == Lower(message_content)
    IN  IF message = "start" THEN mdk_start(state)
        ELSE IF message \in {"help", "what can you do", "how does this work"}
        THEN Out(state, Result("message", {"type", "content", "campaign_data", "next_step"},
                               "mdk help", <<>>, state.current_step), <<>>, <<>>)
        ELSE IF message = ""
        THEN Out(state, Result(None, {"response", "campaign_data", "next_step"},
                               "I didn't catch that. Could you please try again?", <<>>,
                               state.current_step), <<>>, <<>>)
        ELSE IF message = "main_menu" \/ message = "restart"
        THEN Out(state, Result("reset_to_main",
                               {"type", "response", "content", "reset_to_main"},
                               "Returning to main menu...", <<>>, None), <<>>, <<>>)
        ELSE mdk_step(state, message, sheet_ok)

\* ------------------------------------------------------------------------
\* Campaign4/tabung_perubatan.py: Tabung Perubatan
\* ------------------------------------------------------------------------
TabungPerubatanState == [current_step |-> "welcome", user_data |-> EmptyDict,
                         age |-> NotParsed, coverage_level |-> 0, name |-> None]

tp_get_state(ss) ==
    IF "tabung_perubatan" \in DOMAIN ss THEN ss["tabung_perubatan"]
    ELSE TabungPerubatanState

tp_get_welcome_response ==
    Result("message", {"type", "text", "content", "buttons", "next_step"},
           "tp welcome", <<"yes", "no">>, "check_interest_response")

tp_reset_to_main ==
    Result("reset_to_main", {"type", "response", "content", "reset_to_main"},
           "Returning to main menu...", <<>>, None)

tp_coverage_buttons ==
    Result("buttons", {"type", "content", "next_step", "buttons"},
           "tp select your desired coverage level", <<"1", "2", "3">>,
           "get_coverage_level")

tp_understood(st) ==
    Out([st EXCEPT !.current_step = "end_conversation"],
        Result("buttons", {"type", "content", "next_step", "buttons"},
               "tp understood, stay healthy", <<"main_menu">>, "end_conversation"),
        <<>>, <<>>)

tp_says_yes(message, words) == \E word \in words : Contains(message, word)

tp_says_no(message) ==
    message = "no" \/ \E word \in {"no", "n", "not now", "later"} : Contains(message, word)

\* the except clause of process_message: the state is left as it was
tp_error(st) ==
    Out(st, Result("message", {"type", "content", "response", "campaign_data", "next_step"},
                   "Sorry, an error occurred. Let's start over.", <<>>, "welcome"),
        <<>>, <<>>)

\* the tail every branch that does not return falls into
tp_ensure_response(st, response) ==
    LET named == IF "response" \in response.keys /\ response.text # "" THEN response
                 ELSE [response EXCEPT !.keys = @ \cup {"response"},
                                       !.next_step = "welcome"]
        state == IF "response" \in response.keys /\ response.text # "" THEN st
                 ELSE [st EXCEPT !.current_step = "welcome"]
    IN  Out(state, [named EXCEPT !.keys = @ \cup {"content", "campaign_data", "next_step"}],
            <<>>, <<>>)

tp_default_response(st) ==
    Result("message", {"type", "response", "content", "campaign_data", "next_step"},
           "", <<>>, st.current_step)

tp_check_interest_response(st, message) ==
    IF message = "yes" \/ tp_says_yes(message, {"yes", "y", "ya", "yeah", "sure", "ok"})
    THEN Out([st EXCEPT !.current_step = "handle_estimation_response"],
             Result("buttons", {"type", "text", "content", "buttons", "next_step"},
                    "tp plan explanation", <<"yes_estimate", "no">>,
                    "handle_estimation_response"), <<>>, <<>>)
    ELSE IF message = "estimate"
    THEN Out([st EXCEPT !.current_step = "get_coverage_level"], tp_coverage_buttons,
             <<>>, <<>>)
    ELSE IF tp_says_no(message) THEN tp_understood(st)
    ELSE Out(st, tp_get_welcome_response, <<>>, <<>>)

\* the last branch calls _get_estimation_question() without its argument
tp_handle_estimation_response(st, message) ==
    IF \/ message = "yes_estimate"
       \/ message = "estimate"
       \/ tp_says_yes(message, {"yes", "y", "ya", "sure", "ok"})
    THEN Out([st EXCEPT !.current_step = "get_coverage_level"], tp_coverage_buttons,
             <<>>, <<>>)
    ELSE IF tp_says_no(message) THEN tp_understood(st)
    ELSE tp_error(st)

tp_coverage_level_of(message) ==
    IF isdigit(message) THEN int_of(message)
    ELSE IF \E word \in {"basic", "100k"} : Contains(message, word) THEN Parsed(1)
    ELSE IF \E word \in {"medium", "500k"} : Contains(message, word) THEN Parsed(2)
    ELSE IF \E word \in {"comprehensive", "1m", "1m+"} : Contains(message, word)
    THEN Parsed(3)
    ELSE NotParsed

\* a variant without the try around append_row_to_sheet: its failure
\* reaches the except clause of process_message
tp_get_coverage_level_unguarded(st, message, sheet_ok) ==
    LET coverage_level == tp_coverage_level_of(message)
        row_data == Row(CommonColumns([k \in DOMAIN st.user_data \ {"selected_plan"} |->
                                           st.user_data[k]], "tabung_perubatan"),
                        <<None, None, None, None, None, coverage_level.value>>)
    IN  IF ~coverage_level.ok \/ coverage_level.value \notin {1, 2, 3}
        THEN Out(st, Result("buttons", {"type", "content", "buttons", "next_step"},
                            "Please select a valid coverage level.", <<"1", "2", "3">>,
                            "get_coverage_level"), <<>>, <<>>)
        ELSE IF ~st.age.ok
        THEN Out([st EXCEPT !.coverage_level = coverage_level.value],
                 Result("message", {"type", "content", "next_step"},
                        "tp error calculating your premium", <<>>, "get_coverage_level"),
                 <<>>, <<>>)
        ELSE IF ~sheet_ok
        THEN Out([st EXCEPT !.coverage_level = coverage_level.value],
                 tp_error(st).result, <<>>, <<row_data>>)
        ELSE Out([st EXCEPT !.coverage_level = coverage_level.value,
                            !.current_step = "offer_agent_contact"],
                 Result("buttons", {"type", "content", "next_step", "buttons"},
                        "tp premium estimate", <<"contact_agent", "no_contact">>,
                        "offer_agent_contact"), <<>>, <<row_data>>)

tp_get_coverage_level(st, message, sheet_ok) ==
    LET coverage_level == tp_coverage_level_of(message)
        row_data == Row(CommonColumns([k \in DOMAIN st.user_data \ {"selected_plan"} |->
                                           st.user_data[k]], "tabung_perubatan"),
                        <<None, None, None, None, None, coverage_level.value>>)
    IN  IF ~coverage_level.ok \/ coverage_level.value \notin {1, 2, 3}
        THEN Out(st, Result("buttons", {"type", "content", "buttons", "next_step"},
                            "Please select a valid coverage level.", <<"1", "2", "3">>,
                            "get_coverage_level"), <<>>, <<>>)
        ELSE IF ~st.age.ok
        THEN Out([st EXCEPT !.coverage_level = coverage_level.value],
                 Result("message", {"type", "content", "next_step"},
                        "tp error calculating your premium", <<>>, "get_coverage_level"),
                 <<>>, <<>>)
        ELSE Out([st EXCEPT !.coverage_level = coverage_level.value,
                            !.current_step = "offer_agent_contact"],
                 Result("buttons", {"type", "content", "next_step", "buttons"},
                        "tp premium estimate", <<"contact_agent", "no_contact">>,
                        "offer_agent_contact"), <<>>, <<row_data>>)

tp_offer_agent_contact(st, message) ==
    IF message = "contact_agent"
    THEN Out([st EXCEPT !.current_step = "contact_confirmed"],
             Result("buttons", {"type", "content", "next_step", "buttons"},
                    "tp our agent will contact you soon", <<"main_menu">>,
                    "contact_confirmed"), <<>>, <<>>)
    ELSE IF message = "no_contact"
    THEN Out([st EXCEPT !.current_step = "end_options"],
             Result("buttons", {"type", "content", "next_step", "buttons"},
                    "tp thank you for your interest", <<"main_menu">>, "end_options"),
             <<>>, <<>>)
    ELSE IF message = "other_plans"
    THEN Out([st EXCEPT !.current_step = "show_plans"],
             Result("buttons", {"type", "content", "next_step", "buttons"},
                    "tp our other available plans",
                    <<"tabung_warisan", "masa_depan_anak_kita", "satu_gaji", "main_menu">>,
                    "show_plans"), <<>>, <<>>)
    ELSE tp_ensure_response(st, tp_default_response(st))

tp_get_contact_info(st, message) ==
    IF without_digits(message) = ""
    THEN Out(st, Result("message", {"type", "content", "next_step"},
                        "Please provide a valid name.", <<>>, "get_contact_info"),
             <<>>, <<>>)
    ELSE Out([st EXCEPT !.name = without_digits(message),
                        !.current_step = "end_conversation"],
             Result("message", {"type", "content", "next_step"},
                    "tp one of our agents will contact you shortly", <<>>,
                    "end_conversation"), <<>>, <<>>)

\* a step the method does not know: it calls itself with "start" from "welcome"
tp_unknown_state(st) ==
    tp_ensure_response([st EXCEPT !.current_step = "check_interest_response"],
                       tp_get_welcome_response)

tp_step(st, message, sheet_ok) ==
    IF st.current_step \in {"welcome", ""}
    THEN Out([st EXCEPT !.current_step = "check_interest_response"],
             tp_get_welcome_response, <<>>, <<>>)
    ELSE IF st.current_step = "check_interest_response"
    THEN tp_check_interest_response(st, message)
    ELSE IF st.current_step = "ask_estimation"
    THEN Out([st EXCEPT !.current_step = "welcome"], tp_get_welcome_response, <<>>, <<>>)
    ELSE IF st.current_step = "handle_estimation_response"
    THEN tp_handle_estimation_response(st, message)
    ELSE IF st.current_step = "get_coverage_level"
    THEN tp_get_coverage_level(st, message, sheet_ok)
    ELSE IF st.current_step = "offer_agent_contact"
    THEN tp_offer_agent_contact(st, message)
    ELSE IF st.current_step = "get_contact_info"
    THEN tp_get_contact_info(st, message)
    ELSE IF st.current_step = "end_conversation"
    THEN Out(st, Result("message", {"type", "content", "response", "next_step"},
                        "Thank you for your interest in Tabung Perubatan. Have a great day!",
                        <<>>, "end_conversation"), <<>>, <<>>)
    ELSE tp_unknown_state(st)

tp_process_message(ss, message_content, ud, sheet_ok) ==
    LET got == tp_get_state(ss)
        state == IF ud = EmptyDict THEN got
                 ELSE [got EXCEPT
                          !.user_data = Update(@, ud),
                          !.age = IF "age" \in DOMAIN ud THEN Parsed(ud["age"]) ELSE @,
                          !.name = IF Get(ud, "name", "") # "" THEN ud["name"] ELSE @]
        message == Lower(message_content)
    IN  IF message \in {"restart", "main_menu"}
        THEN Out(state, tp_reset_to_main, <<>>, <<>>)
        ELSE tp_step(state, message, sheet_ok)

\* ------------------------------------------------------------------------
\* Campaign5/perlindungan_combo.py: Perlindungan Combo
\* The steps no transition of the method leads to (after_explanation,
\* confirm_package, show_estimate, follow_up_quote, offer_agent_contact) end
\* in the fallback here.
\* ------------------------------------------------------------------------
pc_CampaignState == [current_step |-> "welcome", user_data |-> EmptyDict,
                     age |-> NotParsed]

pc_get_state(ss) ==
    IF "perlindungan_combo" \in DOMAIN ss THEN ss["perlindungan_combo"]
    ELSE pc_CampaignState

pc_create_button_response(message, buttons, next_step) ==
    Result("buttons", {"type", "response", "content", "buttons", "campaign_data",
                       "next_step"}, message, buttons, next_step)

pc_message(text, next_step) ==
    Result("message", {"type", "response", "content", "next_step"}, text, <<>>, next_step)

pc_package_selection == <<"1", "2", "3">>

\* the first block of the method: step "welcome", or the message "start"
pc_welcome(st, message_content) ==
    IF Get(st.user_data, "next_step", "") = "get_name"
    THEN Out([st EXCEPT !.user_data = Put(Put(@, "name", message_content),
                                          "next_step", "get_dob"),
                        !.current_step = "get_dob"],
             Result("message", {"type", "response", "content", "next_step",
                                "campaign_data"}, "pc what is your date of birth", <<>>,
                    "get_dob"), <<>>, <<>>)
    ELSE IF st.current_step = "welcome" /\ Get(st.user_data, "name", "") = ""
    THEN Out([st EXCEPT !.user_data = Put(@, "next_step", "get_name")],
             pc_message("Welcome! Let's start again. What is your name?", "get_name"),
             <<>>, <<>>)
    ELSE Out([st EXCEPT !.current_step = "after_welcome"],
             pc_create_button_response("pc welcome", <<"learn_more", "not_now">>,
                                       "after_welcome"), <<>>, <<>>)

pc_main_menu ==
    Out([pc_CampaignState EXCEPT !.current_step = "get_name"],
        Result("reset_to_main", {"type", "response", "content", "next_step"},
               "Welcome back to the main menu! What's your name?", <<>>, "get_name"),
        <<>>, <<>>)

pc_benefits ==
    Result("buttons", {"type", "response", "content", "buttons", "next_step"},
           "pc benefits", <<"show_estimate", "not_now">>, "show_benefits_response")

pc_show_estimate(st) ==
    LET known == "age" \in DOMAIN st.user_data
        age == st.user_data["age"]
    IN  IF known /\ 18 <= age /\ age <= 60
        THEN Out([st EXCEPT !.age = Parsed(age), !.current_step = "get_package"],
                 Result("buttons", {"type", "response", "content", "buttons", "next_step"},
                        "pc select a protection package", pc_package_selection,
                        "get_package"), <<>>, <<>>)
        ELSE Out([st EXCEPT !.age = IF known THEN Parsed(age) ELSE @,
                            !.current_step = "get_age_manually"],
                 pc_message("To calculate your premium, please enter your age (18-60):",
                            "get_age_manually"), <<>>, <<>>)

pc_not_now(st) ==
    Out([st EXCEPT !.current_step = "end_conversation"],
        pc_create_button_response("pc understood, return to the main menu?",
                                  <<"main_menu">>, "end_conversation"), <<>>, <<>>)

pc_show_benefits_response(st, normalized_msg) ==
    IF normalized_msg = "show_estimate" THEN pc_show_estimate(st)
    ELSE IF normalized_msg = "not_now" THEN pc_not_now(st)
    ELSE Out(st, pc_benefits, <<>>, <<>>)

pc_after_welcome(st, normalized_msg) ==
    IF normalized_msg \in {"show_benefits", "learn_more"}
    THEN Out([st EXCEPT !.current_step = "show_benefits_response"], pc_benefits, <<>>, <<>>)
    ELSE IF normalized_msg = "show_estimate" THEN pc_show_estimate(st)
    ELSE IF \/ normalized_msg = "not_now"
            \/ \E word \in {"no", "n", "not now", "later"} : Contains(normalized_msg, word)
    THEN pc_not_now(st)
    ELSE IF \/ normalized_msg = "get_estimate"
            \/ \E word \in {"estimate", "calculate", "premium"} :
                   Contains(normalized_msg, word)
    THEN Out([st EXCEPT !.current_step = "get_age",
                        !.user_data = Put(@, "next_step_after_age", "select_package")],
             Result("message", {"type", "response", "content", "campaign_data",
                                "next_step"},
                    "To calculate your premium, please enter your age (18-60):", <<>>,
                    "get_age"), <<>>, <<>>)
    ELSE Out(st, pc_create_button_response(
                     "I'm not sure I understand. Please select an option from the buttons above.",
                     <<"learn_more", "not_now">>, "after_welcome"), <<>>, <<>>)

pc_get_age_manually(st, message_content) ==
    LET age == int_of(message_content)
    IN  IF ~isdigit(message_content)
        THEN Out(st, pc_message("Please enter a valid number for your age (18-60):",
                                "get_age_manually"), <<>>, <<>>)
        ELSE IF 18 <= age.value /\ age.value <= 60
        THEN Out([st EXCEPT !.age = age, !.current_step = "get_package"],
                 Result("buttons", {"type", "response", "content", "buttons", "next_step"},
                        "pc select a protection package", pc_package_selection,
                        "get_package"), <<>>, <<>>)
        ELSE Out(st, pc_message("Age must be between 18 and 60. Please enter a valid age:",
                                "get_age_manually"), <<>>, <<>>)

\* the block that answers the message "get_name": the profile questions the
\* handler asks by itself, or an empty dict
pc_restart_after_name(st, message_content) ==
    LET asked == Get(st.user_data, "next_step", "")
        record(key, next) ==
            [st EXCEPT !.user_data = Put(Put(@, key, message_content), "next_step", next),
                       !.current_step = next]
    IN  IF asked = "get_name"
        THEN Out(record("name", "get_dob"),
                 pc_message("pc what is your date of birth", "get_dob"), <<>>, <<>>)
        ELSE IF asked = "get_dob"
        THEN Out(record("dob", "get_email"),
                 pc_message("What is your email address?", "get_email"), <<>>, <<>>)
        ELSE IF asked = "get_email"
        THEN Out(record("email", "get_age"),
                 pc_message("How old are you?", "get_age"), <<>>, <<>>)
        ELSE IF asked = "get_age"
        THEN Out([st EXCEPT !.user_data = Put(@, "age", message_content),
                            !.current_step = "after_name"],
                 pc_message("Thank you! Let's continue.", "after_name"), <<>>, <<>>)
        ELSE Out(st, NoResult, <<>>, <<>>)

pc_follow_up_contact(st, message_content) ==
    IF message_content \in {"yes", "y"}
    THEN Out(st, pc_create_button_response("pc one of our agents will contact you shortly",
                                           <<"main_menu">>, "end_conversation"), <<>>, <<>>)
    ELSE IF message_content \in {"no", "no thanks", "n", "not now"}
    THEN Out(st, pc_create_button_response("No problem! If you have any questions later, feel free to ask.",
                                           <<"main_menu">>, "get_name"), <<>>, <<>>)
    ELSE Out(st, pc_create_button_response("Is there anything else I can help you with?",
                                           <<"main_menu">>, "end_conversation"), <<>>, <<>>)

\* the except clause of process_message: the state is left as it was
pc_error(st) ==
    Out(st, Result("message", {"type", "response", "content", "campaign_data", "next_step"},
                   "An error occurred while processing your request. Please try again.",
                   <<>>, "welcome"), <<>>, <<>>)

\* nothing above matched: the f-string of the reply is filled with the
\* handler's step and the message received
pc_fallback(st) ==
    Out(st, Result("message", {"type", "response", "content", "campaign_data", "next_step"},
                   "Sorry, I couldn't understand your last input or something went wrong. (State: {state.current_step}, Message: '{message_content}')",
                   <<>>, "welcome"), <<>>, <<>>)

\* from main import active_conversations, and the ages of 0..120 kept in
\* the user_data of its conversations.  (Started as main:app the module
\* is the running one; started as a script, the import makes a second
\* copy of the module, in which no conversation ever stores anything.)
imported_ages ==
    {active_conversations[k].user_data["age"] :
        k \in {j \in DOMAIN active_conversations :
                  /\ "age" \in DOMAIN active_conversations[j].user_data
                  /\ 0 <= active_conversations[j].user_data["age"]
                  /\ active_conversations[j].user_data["age"] <= 120}}

\* the profile's age when it is one of 0..120, else the first age of
\* 0..120 found in any conversation of the registry
pc_get_age(st, ud) ==
    IF "age" \in DOMAIN ud /\ 0 <= ud["age"] /\ ud["age"] <= 120
    THEN Out([st EXCEPT !.user_data = Put(@, "age", ud["age"]),
                        !.current_step = "get_package"],
             pc_create_button_response("pc select a protection package",
                                       pc_package_selection, "get_package"), <<>>, <<>>)
    ELSE IF "age" \in DOMAIN ud /\ imported_ages # {}
    THEN Out([st EXCEPT !.user_data = Put(@, "age", CHOOSE a \in imported_ages : TRUE),
                        !.current_step = "get_package"],
             pc_create_button_response("pc select a protection package",
                                       pc_package_selection, "get_package"), <<>>, <<>>)
    ELSE IF "age" \in DOMAIN ud
    THEN Out(st, Result("message", {"type", "response", "content", "campaign_data",
                                    "next_step"},
                        "Please enter your age (0-120) to continue:", <<>>, "get_age"),
             <<>>, <<>>)
    ELSE pc_fallback(st)

\* calculate_combo_tier: the band of the age has a premium, the ages
\* outside 18..60 have None and an error text
calculate_combo_tier(age, package_tier) ==
    IF 18 <= age /\ age <= 60 THEN Parsed(package_tier) ELSE NotParsed

\* the choice, the premium (or None) and the step follow_up_contact are
\* stored before the premium is formatted; float(None) raises there, and
\* the except clause of process_message answers
pc_get_package(st, message_content) ==
    LET package_choice == int_of(message_content).value
        age == IF st.age.ok /\ st.age.value # 0 THEN st.age.value
               ELSE Get(st.user_data, "age", 30)
        annual_premium == calculate_combo_tier(age, package_choice)
        chosen == [st EXCEPT !.user_data = Put(Put(Put(@, "package_tier", package_choice),
                                                   "package_choice", package_choice),
                                               "annual_premium",
                                               IF annual_premium.ok THEN "premium" ELSE None),
                             !.current_step = "follow_up_contact"]
    IN  IF annual_premium.ok
        THEN Out(chosen,
                 pc_create_button_response("pc premium estimate", <<"yes", "no">>,
                                           "follow_up_contact"), <<>>, <<>>)
        ELSE pc_error(chosen)

pc_step(st, message_content, ud) ==
    LET normalized_msg == Lower(message_content)
    IN  IF st.current_step = "welcome" \/ normalized_msg = "start"
        THEN pc_welcome(st, message_content)
        ELSE IF normalized_msg = "main_menu" THEN pc_main_menu
        ELSE IF st.current_step = "show_benefits_response"
        THEN pc_show_benefits_response(st, normalized_msg)
        ELSE IF st.current_step \in {"after_welcome", "welcome_response"}
        THEN pc_after_welcome(st, normalized_msg)
        ELSE IF st.current_step = "get_age_manually"
        THEN pc_get_age_manually(st, message_content)
        ELSE IF normalized_msg = "get_name"
        THEN pc_restart_after_name(st, message_content)
        ELSE IF st.current_step = "follow_up_contact"
        THEN pc_follow_up_contact(st, normalized_msg)
        ELSE IF st.current_step = "get_age" THEN pc_get_age(st, ud)
        ELSE IF /\ st.current_step = "get_package"
                /\ isdigit(message_content)
                /\ int_of(message_content).value \in {1, 2, 3}
        THEN pc_get_package(st, message_content)
        ELSE pc_fallback(st)

pc_process_message(ss, message, ud, sheet_ok) ==
    LET got == pc_get_state(ss)
        state == IF ud = EmptyDict THEN got
                 ELSE [got EXCEPT
                          !.user_data = Update(@, ud),
                          !.age = IF "age" \in DOMAIN ud THEN Parsed(ud["age"]) ELSE @]
    IN  pc_step(state, message, ud)

\* ------------------------------------------------------------------------
\* main.py: the campaign menu
\* ------------------------------------------------------------------------
\* campaign_handlers[campaign_id].process_message(conv_id, message, ws, user_data)
process_message(c, ss, message, ud, sheet_ok) ==
    CASE c = "sgsa" -> sgsa_process_message(ss, message, ud, sheet_ok)
      [] c = "tabung_warisan" -> tw_process_message(ss, message, ud, sheet_ok)
      [] c = "masa_depan_anak_kita" -> mdk_process_message(ss, message, ud, sheet_ok)
      [] c = "tabung_perubatan" -> tp_process_message(ss, message, ud, sheet_ok)
      [] c = "perlindungan_combo" -> pc_process_message(ss, message, ud, sheet_ok)

\* what one iteration of the receive loop leaves behind
Turn(st, ud, ac, cs, sd, ss, rs, rows, alive) ==
    [step |-> st, user_data |-> ud, active_campaign |-> ac, campaign_state |-> cs,
     sent |-> sd, states |-> ss, results |-> rs, rows |-> rows,
     conversation_active |-> alive]

\* every priority ends as 1, so the sort leaves the campaigns in the order
\* of their titles
displayed_campaigns ==
    <<"masa_depan_anak_kita", "perlindungan_combo", "sgsa", "tabung_perubatan",
      "tabung_warisan">>

\* show_campaign_options: int(dependents) raises on text that is no number,
\* and then nothing but the apology happens
show_campaign_options(t, show_all) ==
    IF "dependents" \in DOMAIN t.user_data /\ ~isdigit(t.user_data["dependents"])
    THEN [t EXCEPT !.sent = @ \o send_text(
              "Sorry, there was an error displaying the options. Please try again.")]
    ELSE [t EXCEPT !.user_data = Put(@, "displayed_campaigns", displayed_campaigns),
                   !.active_campaign = None,
                   !.campaign_state = None,
                   !.sent = @ \o <<Frame("message",
                                         "Here are the available plans. Please select one:",
                                         <<"1", "2", "3", "4", "5">>)>>]

showing_all(t) == Get(t.user_data, "showing_all_campaigns", FALSE)

get_premium_budget(t, m) ==
    [show_campaign_options(
         [t EXCEPT !.user_data = Put(@, "premium_budget", m),
                   !.sent = send_text("Thank you for sharing your details! Let me analyze the best options for you..."),
                   !.active_campaign = None,
                   !.campaign_state = None], FALSE)
     EXCEPT !.step = "campaign_selection"]

\* result.get('content', result.get('response', ''))
content_of(r) == IF "content" \in r.keys \/ "response" \in r.keys THEN r.text ELSE ""

\* a call made for the session: the handler state, its result, its frames
\* and its rows join what the iteration leaves behind
called(t, c, out) ==
    [t EXCEPT !.states = Put(@, c, out.state),
              !.results = Append(@, out.result),
              !.sent = @ \o out.frames,
              !.rows = @ \o out.rows]

\* next_step == 'end_conversation' on the way into a campaign
end_conversation(t, text) ==
    show_campaign_options([t EXCEPT !.active_campaign = None,
                                    !.step = "show_campaigns",
                                    !.sent = @ \o send_text(text)], showing_all(t))

\* the handler call that follows the digit branch while a campaign is active
selection_third_call(t, c, m, sheet_ok) ==
    LET out == process_message(c, t.states, m, t.user_data, sheet_ok)
        r == out.result
        after == called(t, c, out)
    IN  IF r.keys = {} THEN after
        ELSE IF r.next_step = "end_conversation"
        THEN end_conversation(after, IF "response" \in r.keys THEN r.text ELSE "")
        ELSE [after EXCEPT !.sent =
                 @ \o (IF "response" \in r.keys THEN send_text(r.text) ELSE <<>>)
                   \o (IF "buttons" \in r.keys /\ r.buttons # <<>>
                       THEN send_buttons(IF "message" \in r.keys THEN r.text
                                         ELSE "Please select an option:", r.buttons)
                       ELSE <<>>)]

\* the call with the digit itself, made when "start" brought no 'response'
\* and no 'message'
selection_second_call(t, c, m, sheet_ok) ==
    LET out == process_message(c, t.states, m, t.user_data, sheet_ok)
        r == out.result
        after == called(t, c, out)
        frame == IF r.type = "buttons"
                 THEN Frame("buttons", content_of(r), r.buttons)
                 ELSE Frame(IF r.type = None THEN "message" ELSE r.type,
                            content_of(r), <<>>)
        answered == [after EXCEPT !.sent = Append(@, frame)]
    IN  IF r.keys = {} THEN selection_third_call(after, c, m, sheet_ok)
        ELSE IF r.next_step = "end_conversation" THEN end_conversation(answered, "")
        ELSE selection_third_call(answered, c, m, sheet_ok)

\* a variant that leaves the state the handler kept for the conversation
start_campaign_keeping_state(t, c, m, handlers, sheet_ok) ==
    LET chosen == [t EXCEPT !.user_data = Put(Put(@, "selected_plan", c),
                                              "displayed_campaigns", campaign_ids),
                            !.step = CampaignStep(c),
                            !.active_campaign = c]
        missing == show_campaign_options(
                       [chosen EXCEPT !.sent = @ \o send_text(
                            "Sorry, there was an error starting the selected campaign. Please try again later.")],
                       FALSE)
        fresh == [chosen EXCEPT !.campaign_state = "set"]
        out == process_message(c, fresh.states, "start", fresh.user_data, sheet_ok)
        r == out.result
        after == called(fresh, c, out)
    IN  IF c \notin handlers THEN missing
        ELSE IF "response" \in r.keys \/ "message" \in r.keys
        THEN [after EXCEPT !.sent = @ \o
                 (IF r.type = "buttons" THEN <<Frame("buttons", r.text, r.buttons)>>
                  ELSE send_text(r.text))]
        ELSE selection_second_call(after, c, m, sheet_ok)

\* a valid digit of the menu: the campaign is made active and started
start_campaign(t, c, m, handlers, sheet_ok) ==
    LET chosen == [t EXCEPT !.user_data = Put(Put(@, "selected_plan", c),
                                              "displayed_campaigns", campaign_ids),
                            !.step = CampaignStep(c),
                            !.active_campaign = c]
        missing == show_campaign_options(
                       [chosen EXCEPT !.sent = @ \o send_text(
                            "Sorry, there was an error starting the selected campaign. Please try again later.")],
                       FALSE)
        fresh == [chosen EXCEPT
                     !.states = [k \in DOMAIN @ \ {c} |-> @[k]],
                     !.campaign_state = "set"]
        out == process_message(c, fresh.states, "start", fresh.user_data, sheet_ok)
        r == out.result
        after == called(fresh, c, out)
    IN  IF c \notin handlers THEN missing
        ELSE IF "response" \in r.keys \/ "message" \in r.keys
        THEN [after EXCEPT !.sent = @ \o
                 (IF r.type = "buttons" THEN <<Frame("buttons", r.text, r.buttons)>>
                  ELSE send_text(r.text))]
        ELSE selection_second_call(after, c, m, sheet_ok)

\* elif state.step == "campaign_selection"
campaign_selection(t, m, handlers, sheet_ok) ==
    IF isdigit(m)
    THEN IF Digits(m) - 1 < Len(campaign_ids)
         THEN start_campaign(t, campaign_ids[Digits(m)], m, handlers, sheet_ok)
         ELSE show_campaign_options(
                  [t EXCEPT !.user_data = Put(@, "displayed_campaigns", campaign_ids)],
                  showing_all(t))
    ELSE IF Lower(m) = "all"
    THEN LET all == show_campaign_options(
                        [t EXCEPT !.user_data = Put(@, "showing_all_campaigns", TRUE)],
                        TRUE)
         IN  show_campaign_options(all, showing_all(all))
    ELSE show_campaign_options(t, showing_all(t))

\* the branch of the loop taken while a campaign is active, after the
\* duplicate check let the message through
campaign_message(t, c, m, sheet_ok) ==
    LET out == process_message(c, t.states, m, t.user_data, sheet_ok)
        r == out.result
        after == called(t, c, out)
        content == content_of(r)
    IN  IF r.keys = {} THEN after
        ELSE IF content = "" /\ r.buttons = <<>> THEN after
        ELSE IF r.type = "reset_to_main"
        THEN [after EXCEPT !.active_campaign = None,
                           !.campaign_state = None,
                           !.user_data = EmptyDict,
                           !.step = "get_name",
                           !.states = EmptyDict,
                           !.sent = @ \o send_text(
                               "Welcome back to the main menu! What's your name?")]
        ELSE [after EXCEPT !.sent = Append(@,
                 Frame(IF r.type = None THEN "message" ELSE r.type, content,
                       IF r.type = "buttons" /\ "buttons" \in r.keys
                       THEN r.buttons ELSE <<>>))]

\* ------------------------------------------------------------------------
\* main.py: one iteration of the receive loop per action
\* ------------------------------------------------------------------------
\* what the client types into the campaign; its clicks carry any value
TypedInputs == {"main_menu"}

\* the values its clicks carry: the control words and the answers that carry
\* every campaign from its welcome to its last step
ClickInputs ==
    {"main_menu", "restart", "hello", "yes", "no", "2", "20", "500000", "learn_more",
     "show_estimate", "other_amount", "custom", "contact_agent"}

\* what the client answers to the menu
SelectionInputs == {"1", "2", "3", "4", "5", "9", "hello"}

Typed(m) == [type |-> "message", content |-> m]

Click(m) == [type |-> "choice", content |-> m]

\* if state.active_campaign and state.active_campaign in campaign_handlers
InCampaign == active_campaign # None /\ active_campaign \in campaign_handlers

\* the session as the iteration finds it
Session ==
    Turn(step, user_data, active_campaign, campaign_state, <<>>, states, <<>>, <<>>,
         conversation_active)

\* the session as the iteration leaves it
Leave(t, msg, sheet_ok) ==
    /\ step' = t.step
    /\ user_data' = t.user_data
    /\ active_campaign' = t.active_campaign
    /\ campaign_state' = t.campaign_state
    /\ conversation_active' = t.conversation_active
    /\ states' = t.states
    /\ results' = t.results
    /\ sent' = t.sent
    /\ appended' = [i \in 1..Len(t.rows) |-> [row |-> t.rows[i], ok |-> sheet_ok]]
    /\ last_msg' = msg
    /\ UNCHANGED <<campaign_handlers, ticks, connections, estimate, leads>>

\* an iteration outside every campaign
Outside(t, m) ==
    /\ Leave(t, Typed(m), TRUE)
    /\ dropped' = FALSE
    /\ streak' = 0
    /\ UNCHANGED message_cache

Onboarding(o, m) ==
    Outside([Session EXCEPT !.step = o.step, !.user_data = o.user_data,
                            !.sent = o.sent], m)

\* append_row_to_sheet returns or raises, where the handler calls it
SheetOutcomes(t) == IF t.rows = <<>> THEN {TRUE} ELSE BOOLEAN

AtStep(s) == conversation_active /\ ~InCampaign /\ step = s

GetName ==
    /\ AtStep("get_name")
    /\ active_campaign = None
    /\ \E m \in NameInputs : Onboarding(get_name(user_data, m), m)

GetDob ==
    /\ AtStep("get_dob")
    /\ \E m \in DobInputs : Onboarding(get_dob(user_data, m), m)

GetEmail ==
    /\ AtStep("get_email")
    /\ \E m \in EmailInputs : Onboarding(get_email(user_data, m), m)

GetFinancialConcern ==
    /\ AtStep("get_financial_concern_response")
    /\ \E m \in ConcernInputs : Onboarding(get_financial_concern_response(user_data, m), m)

GetLifeStage ==
    /\ AtStep("get_life_stage")
    /\ \E m \in LifeStageInputs : Onboarding(get_life_stage(user_data, m), m)

GetDependents ==
    /\ AtStep("get_dependents")
    /\ \E m \in DependentsInputs : Onboarding(get_dependents(user_data, m), m)

GetExistingCoverage ==
    /\ AtStep("get_existing_coverage")
    /\ \E m \in CoverageInputs : Onboarding(get_existing_coverage(user_data, m), m)

GetPremiumBudget ==
    /\ AtStep("get_premium_budget")
    /\ \E m \in BudgetInputs : Outside(get_premium_budget(Session, m), m)

CampaignSelection ==
    /\ AtStep("campaign_selection")
    /\ \E m \in SelectionInputs :
       \E sheet_ok \in SheetOutcomes(campaign_selection(Session, m, campaign_handlers, TRUE)) :
          /\ Leave(campaign_selection(Session, m, campaign_handlers, sheet_ok),
                   Typed(m), sheet_ok)
          /\ dropped' = FALSE
          /\ streak' = 0
          /\ UNCHANGED message_cache

\* the steps of each handler that follow its estimate
TerminalSteps(c) ==
    CASE c = "sgsa" -> {"handle_agent_decision", "complete"}
      [] c = "tabung_warisan" -> {"calculate_premium", "offer_agent_contact",
                                  "contact_confirmed", "end_conversation"}
      [] c = "masa_depan_anak_kita" -> {"complete", "end_options", "end"}
      [] c = "tabung_perubatan" -> {"offer_agent_contact", "contact_confirmed",
                                    "end_options", "end_conversation"}
      [] c = "perlindungan_combo" -> {"follow_up_contact", "end_conversation"}

\* current_step of the handler state kept for the conversation
current_step(c, ss) == IF c \in DOMAIN ss THEN ss[c].current_step ELSE "welcome"

\* a click that arrives in a step after the estimate extends the run of
\* the same click, or starts a run
Repeats(msg) ==
    IF /\ msg.type = "choice"
       /\ current_step(active_campaign, states) \in TerminalSteps(active_campaign)
    THEN IF last_msg = msg /\ streak > 0
         THEN (IF streak < MaxRepeats THEN streak + 1 ELSE streak)
         ELSE 1
    ELSE 0

\* time.time() - v < MESSAGE_CACHE_TTL
Fresh(cache, now) == [k \in {j \in DOMAIN cache : now - cache[j] < MESSAGE_CACHE_TTL} |-> cache[k]]

\* a message arrives while a campaign is active
CampaignMessage ==
    /\ conversation_active /\ InCampaign
    /\ \E msg \in {Typed(m) : m \in TypedInputs} \cup {Click(m) : m \in ClickInputs} :
       \E sheet_ok \in SheetOutcomes(campaign_message(Session, active_campaign,
                                                      msg.content, TRUE)) :
          LET m == msg.content
              now == ticks * TickSeconds
              duplicate == msg.type # "choice" /\ m \in DOMAIN message_cache
              stored == IF msg.type # "choice" THEN Put(message_cache, m, now)
                        ELSE message_cache
          IN  IF duplicate
              THEN /\ Leave(Session, msg, sheet_ok)
                   /\ dropped' = TRUE
                   /\ streak' = 0
                   /\ UNCHANGED message_cache
              ELSE /\ Leave(campaign_message(Session, active_campaign, m, sheet_ok),
                            msg, sheet_ok)
                   /\ dropped' = FALSE
                   /\ streak' = Repeats(msg)
                   /\ message_cache' = Fresh(stored, now)

\* the last else of the loop: no branch knows the step
ConversationCompleted ==
    /\ conversation_active /\ ~InCampaign
    /\ \/ step = "get_name" /\ active_campaign # None
       \/ step \notin {"get_name", "get_dob", "get_email",
                       "get_financial_concern_response", "get_life_stage",
                       "get_dependents", "get_existing_coverage",
                       "get_premium_budget", "campaign_selection"}
    /\ \E m \in {"hello"} :
          Outside([Session EXCEPT !.sent = <<Frame("message", "Conversation completed.", <<>>)>>,
                                  !.conversation_active = FALSE], m)

\* time.time() advances between two frames
Tick ==
    /\ ticks < MaxTicks
    /\ ticks' = ticks + 1
    /\ UNCHANGED <<campaign_handlers, step, user_data, active_campaign,
                   campaign_state, conversation_active, states, message_cache,
                   last_msg, dropped, results, appended, sent, streak, leads,
                   connections, estimate>>

Next ==
    \/ GetName
    \/ GetDob
    \/ GetEmail
    \/ GetFinancialConcern
    \/ GetLifeStage
    \/ GetDependents
    \/ GetExistingCoverage
    \/ GetPremiumBudget
    \/ CampaignSelection
    \/ CampaignMessage
    \/ ConversationCompleted
    \/ Tick

Spec == Init /\ [][Next]_vars

\* ------------------------------------------------------------------------
\* The handlers on their own: process_message called with any message of the
\* vocabulary, for a session that has just chosen a campaign
\* ------------------------------------------------------------------------
\* the dates of birth of the profiles: an adult, and a child of eleven
ProfileDobs == {"15/06/1990", "15/06/2015"}

\* the session at the menu, after the questions were answered
Menu(born) ==
    LET name == get_name(EmptyDict, "ali").user_data
        dob == get_dob(name, born).user_data
        email == get_email(dob, "Ali@Example.com").user_data
        concern == get_financial_concern_response(email, "income_protection").user_data
        stage == get_life_stage(concern, "single").user_data
        dependents == get_dependents(stage, "2").user_data
        coverage == get_existing_coverage(dependents, "none").user_data
    IN  get_premium_budget(
            Turn("get_premium_budget", coverage, None, None, <<>>, EmptyDict,
                 <<>>, <<>>, TRUE), "201-500")

\* the profile the questions before the menu leave in user_data
Profile(c, born) ==
    Put(Put(Menu(born).user_data, "selected_plan", c), "displayed_campaigns", campaign_ids)

InitH ==
    /\ campaign_handlers = Campaigns
    /\ active_campaign \in Campaigns
    /\ step = CampaignStep(active_campaign)
    /\ \E born \in ProfileDobs : user_data = Profile(active_campaign, born)
    /\ campaign_state = "set"
    /\ conversation_active = TRUE
    /\ states = EmptyDict
    /\ message_cache = EmptyDict
    /\ ticks = 0
    /\ last_msg = NoMessage
    /\ dropped = FALSE
    /\ results = <<>>
    /\ appended = <<>>
    /\ sent = <<>>
    /\ streak = 0
    /\ leads = 0
    /\ Connected
    /\ estimate = NoEstimate

\* the rows stored in the sheet since the campaign was selected, counted up
\* to MaxLeads
Stored(n, rows, sheet_ok) ==
    IF sheet_ok /\ n + Len(rows) <= MaxLeads THEN n + Len(rows)
    ELSE IF sheet_ok THEN MaxLeads ELSE n

\* one call of process_message of the active campaign's handler
HandlerCall ==
    \E m \in Vocabulary :
       \E sheet_ok \in SheetOutcomes(called(Session, active_campaign,
                           process_message(active_campaign, states, m, user_data, TRUE))) :
          LET out == process_message(active_campaign, states, m, user_data, sheet_ok)
          IN  /\ states' = Put(states, active_campaign, out.state)
              /\ results' = <<out.result>>
              /\ sent' = out.frames
              /\ appended' = [i \in 1..Len(out.rows) |-> [row |-> out.rows[i], ok |-> sheet_ok]]
              /\ last_msg' = Click(m)
              /\ dropped' = FALSE
              /\ streak' = Repeats(Click(m))
              /\ leads' = IF out.result.type = "reset_to_main" THEN 0
                          ELSE Stored(leads, out.rows, sheet_ok)
              /\ UNCHANGED <<campaign_handlers, step, user_data, active_campaign,
                             campaign_state, conversation_active, message_cache, ticks,
                             connections, estimate>>

NextH == HandlerCall

SpecHandler == InitH /\ [][NextH]_vars

\* ------------------------------------------------------------------------
\* A handler called for one connection while the client of another
\* connection answers the first questions of main.py
\* ------------------------------------------------------------------------
\* the date of birth of the profile: a date main.py accepts, whose age of
\* 126 no campaign serves
PeerProfileDobs == {"15/06/1900"}

\* what the other client answers to the question for the date of birth
PeerDobInputs == {"25/12/1990", "31/02/1990"}

\* the conversation of the other connection
Peer == <<"conv_2", 1>>

InitP ==
    /\ campaign_handlers = Campaigns
    /\ active_campaign \in Campaigns
    /\ step = CampaignStep(active_campaign)
    /\ \E born \in PeerProfileDobs : user_data = Profile(active_campaign, born)
    /\ campaign_state = "set"
    /\ conversation_active = TRUE
    /\ states = EmptyDict
    /\ message_cache = EmptyDict
    /\ ticks = 0
    /\ last_msg = NoMessage
    /\ dropped = FALSE
    /\ results = <<>>
    /\ appended = <<>>
    /\ sent = <<>>
    /\ streak = 0
    /\ leads = 0
    /\ Connected
    /\ estimate = NoEstimate

\* the loop of the other connection handles a message in step get_name or
\* get_dob: its ConversationState in active_conversations gets the name,
\* or the date of birth and the age
PeerAnswers(o) ==
    /\ active_conversations' =
           [active_conversations EXCEPT ![Peer] = [step |-> o.step,
                                                   user_data |-> o.user_data]]
    /\ UNCHANGED <<conversation, estimate, running, tasks, sockets, in_progress,
                   registry>>

PeerGetName ==
    /\ active_conversations[Peer].step = "get_name"
    /\ \E m \in NameInputs : PeerAnswers(get_name(active_conversations[Peer].user_data, m))

PeerGetDob ==
    /\ active_conversations[Peer].step = "get_dob"
    /\ \E m \in PeerDobInputs : PeerAnswers(get_dob(active_conversations[Peer].user_data, m))

NextP == HandlerCall \/ PeerGetName \/ PeerGetDob

SpecPeers == InitP /\ [][NextP]_vars

\* ------------------------------------------------------------------------
\* A connection that returns from a campaign to the main menu, answers the
\* questions again and selects the campaign it was in
\* ------------------------------------------------------------------------
\* the handler is called with a message of the campaign
InCampaignCall ==
    /\ conversation_active /\ InCampaign
    /\ result.type # "reset_to_main"
    /\ HandlerCall

\* the handler answered reset_to_main: the loop clears the session and asks
\* for the name; the state the handler keeps for the conversation stays
ReturnToMainMenu ==
    /\ conversation_active /\ InCampaign
    /\ result.type = "reset_to_main"
    /\ active_campaign' = None
    /\ campaign_state' = None
    /\ user_data' = EmptyDict
    /\ step' = "get_name"
    /\ sent' = sent \o send_text("Welcome back to the main menu! What's your name?")
    /\ UNCHANGED <<campaign_handlers, conversation_active, states, message_cache, ticks,
                   last_msg, dropped, results, appended, streak, leads, connections,
                   estimate>>

\* the client answers the questions from the name to the budget as before
AnswersAgain ==
    /\ AtStep("get_name")
    /\ \E born \in ProfileDobs :
          /\ user_data' = Menu(born).user_data
          /\ step' = Menu(born).step
          /\ sent' = Menu(born).sent
    /\ last_msg' = Typed("201-500")
    /\ UNCHANGED <<campaign_handlers, active_campaign, campaign_state,
                   conversation_active, states, message_cache, ticks, dropped, results,
                   appended, streak, leads, connections, estimate>>

\* the client selects the campaign it was in before
SelectsAgain ==
    /\ CampaignSelection
    /\ active_campaign' \in DOMAIN states

InitR == InitH

NextR == InCampaignCall \/ ReturnToMainMenu \/ AnswersAgain \/ SelectsAgain

SpecRevisit == InitR /\ [][NextR]_vars

\* ------------------------------------------------------------------------
\* The event loop: uvicorn runs one loop, and every connection is one task
\* on it.  A task keeps the loop until it awaits; a call that is not
\* awaited keeps the loop until it returns.
\* ------------------------------------------------------------------------
\* frames one client writes
MaxFrames == 2

\* connections one client makes one after the other
MaxConnects == 2

\* the conv_id of the connection
Key(s) == <<s, tasks[s].conv_id>>

\* the client writes a frame; the socket buffers it whatever the loop does
ClientWrites(s) ==
    /\ tasks[s].at # "closed"
    /\ sockets[s].written < MaxFrames
    /\ sockets' = [sockets EXCEPT ![s] = [written |-> @.written + 1,
                                          unread |-> Append(@.unread, @.written + 1)]]
    /\ UNCHANGED <<running, tasks, in_progress, active_conversations, registry,
                   conversation, estimate>>

\* data = await ws.receive_text(): the loop resumes the task of a
\* connection that has a frame to read
receive_text_in_new_task(s) ==
    /\ running = None
    /\ tasks[s].at # "closed"
    /\ sockets[s].unread # <<>>
    /\ running' = s
    /\ tasks' = [tasks EXCEPT ![s].at = "process_message",
                              ![s].data = Head(sockets[s].unread)]
    /\ sockets' = [sockets EXCEPT ![s].unread = Tail(@)]
    /\ in_progress' = [in_progress EXCEPT ![s] = @ \cup {Head(sockets[s].unread)}]
    /\ UNCHANGED <<active_conversations, registry, conversation, estimate>>

receive_text(s) ==
    /\ running = None
    /\ tasks[s].at = "receive_text"
    /\ sockets[s].unread # <<>>
    /\ running' = s
    /\ tasks' = [tasks EXCEPT ![s].at = "process_message",
                              ![s].data = Head(sockets[s].unread)]
    /\ sockets' = [sockets EXCEPT ![s].unread = Tail(@)]
    /\ in_progress' = [in_progress EXCEPT ![s] = @ \cup {Head(sockets[s].unread)}]
    /\ UNCHANGED <<active_conversations, registry, conversation, estimate>>

\* get_state of a handler: the state is made on the first call, and every
\* call stamps last_active
get_state(r, user_id, now) ==
    [states |-> r.states \cup {user_id}, last_active |-> Put(r.last_active, user_id, now)]

\* a question of the profile: the loop answers by itself and awaits the send
loop_answers(s) ==
    /\ running = s
    /\ tasks[s].at = "process_message"
    /\ tasks' = [tasks EXCEPT ![s].at = "send_json"]
    /\ running' = None
    /\ UNCHANGED <<sockets, in_progress, active_conversations, registry, conversation, estimate>>

\* the handler reaches its estimate and calls append_row_to_sheet: the call
\* is not awaited, the task keeps the loop
handler_appends(s) ==
    /\ running = s
    /\ tasks[s].at = "process_message"
    /\ tasks' = [tasks EXCEPT ![s].at = "append_row_to_sheet"]
    /\ registry' = get_state(registry, Key(s), ticks * TickSeconds)
    /\ UNCHANGED <<running, sockets, in_progress, active_conversations, conversation, estimate>>

\* the handler returns its result and the loop of the connection awaits
\* the send
handler_returns(s) ==
    /\ running = s
    /\ tasks[s].at = "process_message"
    /\ tasks' = [tasks EXCEPT ![s].at = "send_json"]
    /\ running' = None
    /\ registry' = get_state(registry, Key(s), ticks * TickSeconds)
    /\ UNCHANGED <<sockets, in_progress, active_conversations, conversation, estimate>>

\* execute() returns or raises; the handler goes on to its result and the
\* loop of the connection awaits the send
append_row_to_sheet(s) ==
    /\ running = s
    /\ tasks[s].at = "append_row_to_sheet"
    /\ tasks' = [tasks EXCEPT ![s].at = "send_json"]
    /\ running' = None
    /\ UNCHANGED <<sockets, in_progress, active_conversations, registry, conversation, estimate>>

\* the send is through; the iteration ends and the task awaits the next
\* frame
send_json(s) ==
    /\ running = None
    /\ tasks[s].at = "send_json"
    /\ tasks' = [tasks EXCEPT ![s].at = "receive_text", ![s].data = 0]
    /\ in_progress' = [in_progress EXCEPT ![s] = @ \ {tasks[s].data}]
    /\ UNCHANGED <<running, sockets, active_conversations, registry, conversation, estimate>>

\* the awaited receive or send raises (WebSocketDisconnect, or an error of
\* the connection): the loop breaks and the entry of the conversation is
\* deleted; the finally of websocket_endpoint finds it gone
disconnect_keeping_entry(s) ==
    /\ running = None
    /\ tasks[s].at \in {"receive_text", "send_json"}
    /\ tasks' = [tasks EXCEPT ![s].at = "closed", ![s].data = 0]
    /\ sockets' = [sockets EXCEPT ![s] = [written |-> 0, unread |-> <<>>]]
    /\ in_progress' = [in_progress EXCEPT ![s] = {}]
    /\ UNCHANGED <<running, active_conversations, registry, conversation, estimate>>

disconnect(s) ==
    /\ running = None
    /\ tasks[s].at \in {"receive_text", "send_json"}
    /\ tasks' = [tasks EXCEPT ![s].at = "closed", ![s].data = 0]
    /\ sockets' = [sockets EXCEPT ![s] = [written |-> 0, unread |-> <<>>]]
    /\ in_progress' = [in_progress EXCEPT ![s] = {}]
    /\ active_conversations' = [k \in DOMAIN active_conversations \ {Key(s)} |->
                                  active_conversations[k]]
    /\ UNCHANGED <<running, registry, conversation, estimate>>

\* a client connects: accept, a new conv_id, a new ConversationState with
\* step get_name, and the task runs to its first await ws.receive_text()
websocket_endpoint(s) ==
    /\ running = None
    /\ tasks[s].at = "closed"
    /\ tasks[s].conv_id < MaxConnects
    /\ tasks' = [tasks EXCEPT ![s].at = "receive_text", ![s].conv_id = @ + 1]
    /\ active_conversations' = Put(active_conversations, <<s, tasks[s].conv_id + 1>>,
                                   [step |-> "get_name", user_data |-> EmptyDict])
    /\ UNCHANGED <<running, sockets, in_progress, registry, conversation, estimate>>

InitS == Init /\ campaign_handlers = Campaigns

NextS ==
    \E s \in Sessions :
       \/ ClientWrites(s)
       \/ receive_text(s)
       \/ loop_answers(s)
       \/ handler_appends(s)
       \/ handler_returns(s)
       \/ append_row_to_sheet(s)
       \/ send_json(s)
       \/ disconnect(s)
       \/ websocket_endpoint(s)

SpecSessions == InitS /\ [][NextS]_vars

\* ------------------------------------------------------------------------
\* The calculators on their own, called with any age and amount.  Amounts
\* of money are whole numbers of sen (RM 0.01), those of the education fund
\* whole ringgit.
\* ------------------------------------------------------------------------
MaxAge == 80

Ages == 1..MaxAge

Incomes == {1, 5000, 8333, 12345, 100000}

LegacyAmounts == {1000, 500000, 1000000}

CoverageLevels == 1..4

ChildAges == 0..17

MonthlySavings == {100, 200, 500}

\* round(n / d, 0) for n, d > 0: the nearest whole numbers; a float that
\* lies half way between two of them goes to either
Rounded(n, d) ==
    LET q == n \div d
        r == n % d
    IN  IF 2 * r < d THEN {q} ELSE IF 2 * r > d THEN {q + 1} ELSE {q, q + 1}

\* the rate per thousand of a coverage of ten times the income, as tenths
\* of a sen per ringgit of income
premium_rate_per_thousand(age) ==
    IF age <= 30 THEN 12 ELSE IF age <= 40 THEN 17 ELSE IF age <= 50 THEN 28 ELSE 45

estimated_annual_premium_unfloored(annual_income, age) ==
    annual_income * premium_rate_per_thousand(age)

\* max(units_of_coverage * premium_rate_per_thousand, 100), in tenths of a sen
estimated_annual_premium(annual_income, age) ==
    LET premium == annual_income * premium_rate_per_thousand(age)
    IN  IF premium > 100000 THEN premium ELSE 100000

\* the pairs <<annual_premium, monthly_premium>> calculate_premium_estimation
\* can return, each rounded to the sen
calculate_premium_estimation(annual_income, age) ==
    {<<a, m>> : a \in Rounded(estimated_annual_premium(annual_income, age), 10),
                m \in Rounded(estimated_annual_premium(annual_income, age), 120)}

\* (legacy_amount / 1000) * base_factor, in sen
calculate_warisan_premium_estimation(legacy_amount, age) ==
    LET base_factor == IF age <= 35 THEN 30 ELSE IF age <= 45 THEN 40 ELSE 55
    IN  (legacy_amount * base_factor) \div 10

\* estimate_medical_premium, in sen
estimate_medical_premium_flat(age, coverage_level) ==
    LET base_premium == IF age <= 17 THEN 8000 ELSE IF age <= 60 THEN 12000 ELSE 35000
        multiplier == IF coverage_level = 1 THEN 10 ELSE IF coverage_level = 2 THEN 20 ELSE 35
    IN  (base_premium * multiplier) \div 10

estimate_medical_premium(age, coverage_level) ==
    LET base_premium == IF age <= 17 THEN 8000 ELSE IF age <= 60 THEN 12000 ELSE 35000
        multiplier == IF coverage_level = 1 THEN 10 ELSE IF coverage_level = 2 THEN 20 ELSE 35
        age_adjustment == IF age > 40 THEN (age - 40) * 250 ELSE 0
    IN  (base_premium * multiplier) \div 10 + age_adjustment

\* payment * (((1 + rate) ** years - 1) / rate): the payments of the years
\* with their interest, rate in percent
RECURSIVE future_value_annuity(_, _, _)
future_value_annuity(payment, rate, years) ==
    IF years <= 0 THEN 0
    ELSE (future_value_annuity(payment, rate, years - 1) * (100 + rate)) \div 100 + payment

\* the three funds calculate_results shows
calculate_results_funds(child_age, monthly_saving) ==
    LET years == 18 - child_age
        annual_contribution == monthly_saving * 12
    IN  <<future_value_annuity(annual_contribution, 6, years),
          future_value_annuity(annual_contribution, 8, years),
          future_value_annuity(annual_contribution, 10, years)>>

\* the three funds the step get_custom_saving shows
custom_saving_funds(child_age, monthly_saving) ==
    LET years == 18 - child_age
    IN  <<future_value_annuity(monthly_saving, 6, years),
          future_value_annuity(monthly_saving, 8, years),
          future_value_annuity(monthly_saving, 10, years)>>

Estimated(calc, age, amount, level, figures) ==
    /\ estimate' = [calc |-> calc, age |-> age, amount |-> amount, level |-> level,
                    figures |-> figures]
    /\ UNCHANGED <<conversation, connections>>

IncomeProtection ==
    \E age \in Ages, annual_income \in Incomes :
       \E figures \in calculate_premium_estimation(annual_income, age) :
          Estimated("calculate_premium_estimation", age, annual_income, 0, figures)

Legacy ==
    \E age \in Ages, legacy_amount \in LegacyAmounts :
       LET premium == calculate_warisan_premium_estimation(legacy_amount, age)
       IN  \E monthly_premium \in Rounded(premium, 12) :
              Estimated("calculate_warisan_premium_estimation", age, legacy_amount, 0,
                        <<premium, monthly_premium>>)

Medical ==
    \E age \in Ages, coverage_level \in CoverageLevels :
       Estimated("estimate_medical_premium", age, 0, coverage_level,
                 <<estimate_medical_premium(age, coverage_level)>>)

EducationPreset ==
    \E child_age \in ChildAges, monthly_saving \in MonthlySavings :
       Estimated("calculate_results", child_age, monthly_saving, 0,
                 calculate_results_funds(child_age, monthly_saving))

EducationCustom ==
    \E child_age \in ChildAges, monthly_saving \in MonthlySavings :
       Estimated("get_custom_saving", child_age, monthly_saving, 0,
                 custom_saving_funds(child_age, monthly_saving))

NextC ==
    \/ IncomeProtection
    \/ Legacy
    \/ Medical
    \/ EducationPreset
    \/ EducationCustom

SpecCalc == InitS /\ [][NextC]_vars

\* ------------------------------------------------------------------------
\* Properties
\* ------------------------------------------------------------------------
\* a frame with this text is among those sent for the message
Sent(text) == \E i \in 1..Len(sent) : sent[i].content = text

\* the steps each process_message has a branch for
KnownSteps(c) ==
    CASE c = "sgsa" ->
             sgsa_named_steps \cup {"premium_estimation", "get_annual_income", "get_age",
                                    "get_years_coverage", "calculate_premium",
                                    "handle_agent_decision", "complete"}
      [] c = "tabung_warisan" ->
             {"", "welcome", "handle_welcome_response", "handle_benefits_response",
              "get_legacy_amount", "get_custom_legacy_amount", "get_age",
              "offer_agent_contact", "get_contact_info", "end_conversation",
              "contact_confirmed"}
      [] c = "masa_depan_anak_kita" ->
             {"welcome", "ask_about_plan", "ask_about_estimation",
              "waiting_for_estimation_response", "welcome_response", "get_child_age",
              "waiting_for_age", "get_monthly_saving", "get_custom_saving", "complete"}
      [] c = "tabung_perubatan" ->
             {"", "welcome", "check_interest_response", "ask_estimation",
              "handle_estimation_response", "get_coverage_level", "offer_agent_contact",
              "get_contact_info", "end_conversation"}
      [] c = "perlindungan_combo" ->
             {"welcome", "show_benefits_response", "after_welcome", "welcome_response",
              "after_explanation", "get_age_manually", "confirm_package",
              "follow_up_contact", "show_estimate", "follow_up_quote", "get_age",
              "get_package"}

\* the reply that shows the premium or the projection and offers the agent
IsEstimate(r) ==
    r.text \in {"sgsa premium estimate", "tw premium estimate",
                "mdk education fund projection", "tp premium estimate",
                "pc premium estimate"}

\* the replies of the except clauses around the step logic
ExceptionReplies ==
    {"An error occurred while processing your message. Please try again.",
     "Sorry, an error occurred. Let's start over.",
     "An error occurred while processing your request. Please try again."}

\* C1: while a campaign is active, the message "main_menu", typed or
\* clicked, is answered with the return to the main menu, and after it no
\* campaign is active and the step is get_name.
C1_MainMenuLeavesCampaign ==
    [][(InCampaign /\ conversation_active /\ ticks' = ticks
          /\ last_msg'.content = "main_menu")
       => (/\ \E i \in 1..Len(sent') :
                 sent'[i].content = "Welcome back to the main menu! What's your name?"
           /\ active_campaign' = None
           /\ step' = "get_name")]_vars

\* C2: whatever the current step, each handler answers "main_menu" with the
\* control signal reset_to_main and appends no row for it.
C2_MainMenuIsControlSignal ==
    last_msg = Click("main_menu") => (result.type = "reset_to_main" /\ appended = <<>>)

\* C3: whatever the current step, each handler answers "restart" as it
\* answers "main_menu": with the control signal reset_to_main and no row.
C3_RestartIsControlSignal ==
    last_msg = Click("restart") => (result.type = "reset_to_main" /\ appended = <<>>)

\* C4: once the handler of the active campaign has returned reset_to_main
\* for a message, the session is replaced in full: no active campaign, no
\* campaign state, empty user_data, step get_name.
C4_ControlSignalResetsSession ==
    (\E i \in 1..Len(results) : results[i].type = "reset_to_main")
    => (/\ active_campaign = None
        /\ campaign_state = None
        /\ user_data = EmptyDict
        /\ step = "get_name")

\* C5: between two messages a campaign is active exactly when the step is
\* the step of a campaign.
C5_ActiveExactlyInCampaignStep ==
    (active_campaign # None) <=> (step \in {CampaignStep(c) : c \in Campaigns})

\* C6: the call that shows the estimate and offers the agent hands exactly
\* one row to the sheet, whichever steps led to it.
C6_OneRowPerEstimate == IsEstimate(result) => Len(appended) = 1

\* C7: a button value sent again in a step after the estimate appends no
\* row, however often it is repeated.
C7_ResendAppendsNothing == streak >= 2 => appended = <<>>

C7_Witness ==
    /\ streak >= MaxRepeats
    /\ last_msg = Click("contact_agent")
    /\ appended = <<>>
    /\ results # <<>>

\* C8: when append_row_to_sheet raises, the handler returns the reply and
\* makes the step transition it makes when the row is stored.
C8_SheetFailureIsSwallowed ==
    [][(\E i \in 1..Len(appended') : ~appended'[i].ok)
       => LET stored == process_message(active_campaign, states, last_msg'.content,
                                        user_data, TRUE)
          IN  /\ results' = <<stored.result>>
              /\ states' = Put(states, active_campaign, stored.state)
              /\ sent' = stored.frames]_vars

C8_Witness ==
    /\ appended # <<>>
    /\ ~appended[1].ok
    /\ IsEstimate(result)
    /\ current_step(active_campaign, states) \in TerminalSteps(active_campaign)

\* C9: after the reply of an except clause the current step of the campaign
\* is the safe step welcome, not the step that failed.
C9_ExceptionResetsStep ==
    result.text \in ExceptionReplies => current_step(active_campaign, states) = "welcome"

\* C10: a message that finds the campaign in a step its handler has no
\* branch for leaves the step welcome, or returns the session to the main
\* menu.
C10_UnknownStepFallsBack ==
    [][current_step(active_campaign, states) \notin KnownSteps(active_campaign)
       => (\/ current_step(active_campaign, states') = "welcome"
           \/ (results' # <<>> /\ results'[Len(results')].type = "reset_to_main"))]_vars

\* the order in which the branches of the loop hand the step on
FunnelOrder ==
    <<"get_name", "get_dob", "get_email", "get_financial_concern_response",
      "get_life_stage", "get_dependents", "get_existing_coverage",
      "get_premium_budget", "campaign_selection">>

\* the step that follows s: the next question, or a campaign after the menu
FollowsInFunnel(s, t) ==
    \/ \E i \in 1..(Len(FunnelOrder) - 1) : s = FunnelOrder[i] /\ t = FunnelOrder[i + 1]
    \/ s = "campaign_selection" /\ t \in {CampaignStep(c) : c \in Campaigns}

\* C11: whenever the step changes, it changes to the step that follows it
\* in the order name, date of birth, email, concern, life stage, dependents,
\* coverage, budget, menu, campaign; the only other change is the reset to
\* get_name on a return to the main menu.
C11_FunnelInOrder ==
    [][step' # step
       => (\/ FollowsInFunnel(step, step')
           \/ (/\ step' = "get_name"
               /\ results' # <<>>
               /\ results'[Len(results')].type = "reset_to_main"))]_vars

C11_Witness ==
    /\ InCampaign
    /\ step = CampaignStep(active_campaign)
    /\ {"name", "dob", "age", "email", "primary_concern", "life_stage", "dependents",
        "existing_coverage", "premium_budget", "selected_plan"} \subseteq DOMAIN user_data

\* answers the first three questions must turn down: no name, a date in
\* another form, a day the calendar does not have, an address without "@"
InvalidAnswers(s) ==
    CASE s = "get_name" -> {""}
      [] s = "get_dob" -> {"1990-06-15", "31/02/1990"}
      [] s = "get_email" -> {"ali.example.com"}
      [] OTHER -> {}

\* the texts that ask for the same answer again
RePrompts(s) ==
    CASE s = "get_name" -> {"Please enter your name."}
      [] s = "get_dob" -> {"Please enter your date of birth in DD/MM/YYYY format:",
                           "Please enter a valid date of birth (DD/MM/YYYY):"}
      [] s = "get_email" -> {"Please enter a valid email address (e.g., example@email.com):"}
      [] OTHER -> {}

ListedAs(k, c) ==
    /\ "displayed_campaigns" \in DOMAIN user_data
    /\ k \in 1..Len(user_data["displayed_campaigns"])
    /\ user_data["displayed_campaigns"][k] = c

\* C13: the number k chosen at the menu makes the campaign listed as option
\* k active and the step that campaign's step; and while a campaign is
\* active every message is handed to the handler of that campaign, with
\* the profile, until the handler returns the session to the main menu.
C13_ChoiceActivatesAndForwards ==
    [][/\ (/\ AtStep("campaign_selection")
           /\ ticks' = ticks
           /\ isdigit(last_msg'.content))
          => \A c \in Campaigns :
                ListedAs(Digits(last_msg'.content), c)
                => (active_campaign' = c /\ step' = CampaignStep(c))
       /\ (InCampaign /\ conversation_active /\ ticks' = ticks)
          => (/\ ~dropped'
              /\ results' = <<process_message(active_campaign, states, last_msg'.content,
                                              user_data, TRUE).result>>)]_vars

\* the age the premium shown by the handler was computed from
AgeOfEstimate(c, st) ==
    CASE c = "sgsa" -> st.user_data["age"]
      [] c = "tabung_warisan" -> st.user_age
      [] c = "tabung_perubatan" -> st.age.value
      [] c = "perlindungan_combo" ->
             IF st.age.ok /\ st.age.value # 0 THEN st.age.value
             ELSE Get(st.user_data, "age", 30)

\* C14: a premium shown for a profile that carries the age derived from the
\* date of birth was computed from that age, whatever age was typed inside
\* the campaign.
C14_DerivedAgeIsUsed ==
    (/\ IsEstimate(result)
     /\ active_campaign # "masa_depan_anak_kita"
     /\ "age" \in DOMAIN user_data)
    => AgeOfEstimate(active_campaign, states[active_campaign]) = user_data["age"]

\* the numbers of the vocabulary that lie outside the range the step of the
\* campaign asks for: age 18..70, years 1..50, child age 0..17, custom
\* saving 100..10000, legacy amount from 1000
OutOfRange(c, s) ==
    CASE c = "sgsa" /\ s = "get_age" -> {"2", "500", "500000"}
      [] c = "sgsa" /\ s = "get_years_coverage" -> {"500", "500000"}
      [] c = "tabung_warisan" /\ s = "get_age" -> {"2", "500", "500000"}
      [] c = "tabung_warisan" /\ s \in {"get_legacy_amount", "get_custom_legacy_amount"} ->
             {"2", "20", "500", "rm 500"}
      [] c = "masa_depan_anak_kita" /\ s \in {"get_child_age", "waiting_for_age"} ->
             {"20", "500", "500000"}
      [] c = "masa_depan_anak_kita" /\ s = "get_custom_saving" -> {"2", "20", "500000"}
      [] OTHER -> {}

\* C15: a number outside the range of the step that asks for it is turned
\* down: the campaign stays in the step, its state keeps no trace of the
\* number, and the reply asks again instead of showing a premium.
C15_OutOfRangeIsRejected ==
    [][last_msg'.content \in OutOfRange(active_campaign,
                                        current_step(active_campaign, states))
       => (/\ states' = states
           /\ results' # <<>>
           /\ results'[1].text # ""
           /\ ~IsEstimate(results'[1]))]_vars

\* the age and the amount the premium of the campaign was computed from lie
\* in the domain of its calculator: age 18..70 (18..60 for the combo
\* plans), legacy amount from 1000
InDomain(c, st) ==
    CASE c = "sgsa" -> st.user_data["age"] \in 18..70
      [] c = "tabung_warisan" -> st.user_age \in 18..70 /\ st.desired_legacy >= 1000
      [] c = "perlindungan_combo" -> AgeOfEstimate(c, st) \in 18..60
      [] OTHER -> TRUE

\* C16: no premium is shown for an age or an amount outside the domain of
\* the calculator, whether the value was typed in the campaign or came with
\* the profile.
C16_NoEstimateOutOfDomain ==
    IsEstimate(result) => InDomain(active_campaign, states[active_campaign])

\* the error text calculate_combo_tier returns for an age outside 18..60
ComboAgeGuidance ==
    "Combo plans are typically for ages 18-60. Please consult our advisor for alternative options."

\* C17: in the combo campaign a package chosen while the age of the
\* estimate is outside 18..60 is answered with the guidance about the
\* supported ages; no premium is shown and the step does not become the
\* agent-contact step.
C17_ComboAgeOutOfRange ==
    [][(/\ active_campaign = "perlindungan_combo"
        /\ current_step(active_campaign, states) = "get_package"
        /\ last_msg'.content \in {"1", "2", "3"}
        /\ user_data["age"] \notin 18..60)
       => (/\ results'[1].text = ComboAgeGuidance
           /\ current_step(active_campaign, states') # "follow_up_contact")]_vars

\* the handler did not accept the message: it keeps the step it was at, or
\* its result is an error
NotAccepted(c, before, after, r) ==
    \/ current_step(c, after) = current_step(c, before)
    \/ r.type = "error"

\* the handler sent a frame itself, or the loop sends one for its result:
\* it skips an empty result and a result without content and buttons
Answered(r, frames) ==
    \/ frames # <<>>
    \/ r.keys # {} /\ ~(content_of(r) = "" /\ r.buttons = <<>>)

\* C18: a message the campaign's handler does not accept is answered with
\* a frame: it is never left without a reply.  (After reset_to_main the
\* loop has left the campaign and calls the handler no more.)
C18_RejectionIsAnswered ==
    [][(/\ result.type # "reset_to_main"
        /\ NotAccepted(active_campaign, states, states', result'))
       => Answered(result', sent')]_vars

\* C19: a connection never has two frames in progress: its task receives
\* the next frame only after the previous one was answered, while the
\* frames of different connections are in progress at the same time.
C19_OneFrameAtATime ==
    \A s \in Sessions : Cardinality(in_progress[s]) <= 1

C19_Witness ==
    /\ in_progress["conv_1"] = {2}
    /\ tasks["conv_1"].at = "process_message"
    /\ in_progress["conv_2"] = {1}
    /\ tasks["conv_2"].at = "send_json"

\* C20: while one connection's append_row_to_sheet is in progress, a frame
\* that another connection has to read can be received.
C20_AppendDoesNotBlock ==
    \A s, t \in Sessions :
       (/\ s # t
        /\ tasks[s].at = "append_row_to_sheet"
        /\ tasks[t].at = "receive_text"
        /\ sockets[t].unread # <<>>)
       => ENABLED receive_text(t)

\* the connections that are open
Open == {Key(s) : s \in {t \in Sessions : tasks[t].at # "closed"}}

\* C21: the registry of conversations holds an entry exactly for the
\* connections that are open, and an entry is made with step get_name.
C21_EntryWhileOpen ==
    [][/\ DOMAIN active_conversations' = Open'
       /\ \A k \in DOMAIN active_conversations' \ DOMAIN active_conversations :
             active_conversations'[k].step = "get_name"]_vars

C21_Witness ==
    /\ tasks["conv_1"].at = "closed"
    /\ tasks["conv_2"] = [at |-> "process_message", data |-> 1, conv_id |-> 2]
    /\ DOMAIN active_conversations = {<<"conv_2", 2>>}

\* C22: a handler keeps no state and no last_active entry for a
\* conversation whose connection has ended.
C22_NoStateAfterDisconnect ==
    \A k \in registry.states \cup DOMAIN registry.last_active : k \in Open

\* C23: the menu shown at campaign selection lists Tabung Warisan only for
\* a profile whose primary concern is retirement or savings, or whose age
\* is at least 40.
C23_LegacyOnlyWhenRelevant ==
    (/\ step = "campaign_selection"
     /\ "displayed_campaigns" \in DOMAIN user_data
     /\ \E i \in 1..Len(user_data["displayed_campaigns"]) :
           user_data["displayed_campaigns"][i] = "tabung_warisan")
    => \/ Get(user_data, "primary_concern", "") \in {"retirement", "savings"}
       \/ Get(user_data, "age", 0) >= 40

\* C24: a result of a handler that carries buttons is of type "buttons".
C24_ButtonsOnlyOnButtonedKind ==
    \A i \in 1..Len(results) :
       results[i].buttons # <<>> => results[i].type = "buttons"

\* the positions after the nine common columns where a campaign's row_data
\* has a value of its own
OwnPositions(c) ==
    CASE c = "sgsa" -> {1, 2}
      [] c = "tabung_warisan" -> {3}
      [] c = "masa_depan_anak_kita" -> {4, 5}
      [] c = "tabung_perubatan" -> {6}
      [] c = "perlindungan_combo" -> {7}

C26_OneAnnuityConvention ==
    estimate.calc \in {"calculate_results", "get_custom_saving"}
    => /\ estimate.figures = calculate_results_funds(estimate.age, estimate.amount)
       /\ estimate.figures = custom_saving_funds(estimate.age, estimate.amount)

\* an estimate of the income protection for an age of 18 to 70
IncomeEstimate ==
    estimate.calc = "calculate_premium_estimation" /\ estimate.age \in 18..70

\* C27 as stated: the annual premium is at least RM 100 and the monthly
\* premium is exactly the annual premium divided by 12.
C27_MonthlyIsExactTwelfth ==
    IncomeEstimate
    => /\ estimate.figures[1] >= 10000
       /\ 12 * estimate.figures[2] = estimate.figures[1]

\* C27: the annual premium is at least RM 100 and the monthly premium is
\* the annual premium divided by 12 and rounded to the sen: twelve monthly
\* premiums differ from the annual premium by at most 6 sen.
C27_MonthlyIsRoundedTwelfth ==
    IncomeEstimate
    => /\ estimate.figures[1] >= 10000
       /\ 12 * estimate.figures[2] - estimate.figures[1] \in -6..6

C27_Witness ==
    /\ IncomeEstimate
    /\ estimate.amount = 1
    /\ estimate.figures = <<10000, 833>>

\* C28: a legacy amount of 500000 at age 50 is estimated at an annual
\* premium of 500 x 40 = 20000 and a monthly premium of 1666.67.
C28_ScenarioB ==
    (/\ estimate.calc = "calculate_warisan_premium_estimation"
     /\ estimate.amount = 500000
     /\ estimate.age = 50)
    => estimate.figures = <<2000000, 166667>>

\* C29: the medical premium is the base premium of the age tier times the
\* multiplier of the coverage tier, plus (age - 40) x 2.5 above the age of
\* 40; age 65 with coverage tier 3 gives 1287.5.
C29_MedicalPremium ==
    estimate.calc = "estimate_medical_premium"
    => LET age == estimate.age
           base == CASE age <= 17 -> 80 [] age > 17 /\ age <= 60 -> 120 [] age > 60 -> 350
           times_ten == CASE estimate.level = 1 -> 10
                          [] estimate.level = 2 -> 20
                          [] OTHER -> 35
           surcharge == IF age > 40 THEN (age - 40) * 250 ELSE 0
       IN  /\ estimate.figures = <<base * times_ten * 10 + surcharge>>
           /\ (age = 65 /\ estimate.level = 3) => estimate.figures = <<128750>>

C29_Witness ==
    /\ estimate.calc = "estimate_medical_premium"
    /\ estimate.age = 65
    /\ estimate.level = 3
    /\ estimate.figures = <<128750>>

\* C30: the age of the profile is written when a valid date of birth is
\* accepted, as the difference of the years less one if the birthday of
\* this year is still to come; afterwards it stays as it is until the
\* profile is reset.
C30_AgeDerivedOnce ==
    [][/\ ("age" \in DOMAIN user_data /\ "age" \in DOMAIN user_data')
          => user_data'["age"] = user_data["age"]
       /\ ("age" \notin DOMAIN user_data /\ "age" \in DOMAIN user_data')
          => /\ step = "get_dob"
             /\ user_data'["dob"] = last_msg'.content
             /\ LET born == DobFields(user_data'["dob"])
                     to_come == \/ Today.month < born.month
                                \/ Today.month = born.month /\ Today.day < born.day
                IN  user_data'["age"] = Today.year - born.year - (IF to_come THEN 1 ELSE 0)
       /\ ("age" \in DOMAIN user_data /\ "age" \notin DOMAIN user_data')
          => (user_data' = EmptyDict /\ step' = "get_name")]_vars

C30_Witness ==
    /\ InCampaign
    /\ results # <<>>
    /\ current_step(active_campaign, states) \in TerminalSteps(active_campaign)
    /\ user_data["dob"] = "25/12/1990"
    /\ user_data["age"] = 35

\* what a user answers to the offer of an agent: the affirmative and the
\* negative words, and the values of the two buttons of the offer
OfferReplies == {"yes", "yes_contact", "contact_agent", "no", "no_contact"}

\* C31: after the reply that shows the premium, an affirmative or a
\* negative answer to the offer of an agent never sends the session back
\* to the main menu or to the campaign's welcome step.
C31_OfferReplyStaysAfterEstimate ==
    [][(IsEstimate(result) /\ last_msg'.content \in OfferReplies)
       => /\ result'.type # "reset_to_main"
          /\ result'.next_step # "welcome"
          /\ current_step(active_campaign, states') # "welcome"]_vars


\* the replies whose text is formatted from the handler's step, the state
\* or the text of an exception
InternalDetail ==
    {"Sorry, I couldn't understand your last input or something went wrong. (State: {state.current_step}, Message: '{message_content}')"}

\* C32: no frame sent to the client carries internal detail: the name of a
\* handler step, the contents of the state, the text of an exception.
C32_NoInternalDetailSent ==
    \A i \in 1..Len(sent) : sent[i].content \notin InternalDetail


\* what the handler of the active campaign would do with message m
Response(m) == process_message(active_campaign, states, m, user_data, TRUE)

\* C33: what another connection sends and stores changes nothing for a
\* session: after a step of the other connection the handler answers every
\* message of the session as before, and leaves the same handler state.
C33_PeerChangesNothing ==
    [][UNCHANGED conversation
       => \A m \in Vocabulary : /\ Response(m)'.result = Response(m).result
                                /\ Response(m)'.state = Response(m).state]_vars


\* C34: a message is dropped by the duplicate check only if it was typed
\* and the same text of the conversation was forwarded to a handler less
\* than MESSAGE_CACHE_TTL seconds ago; a click is never dropped.
C34_DroppedOnlyWithinLifetime ==
    [][dropped'
       => /\ last_msg'.type = "message"
          /\ last_msg'.content \in DOMAIN message_cache
          /\ ticks * TickSeconds - message_cache[last_msg'.content]
                 < MESSAGE_CACHE_TTL]_vars


\* the text was forwarded before, MESSAGE_CACHE_TTL seconds ago or earlier
Expired(m) ==
    /\ m \in DOMAIN message_cache
    /\ ticks * TickSeconds - message_cache[m] >= MESSAGE_CACHE_TTL

\* C35: the suppression of duplicates expires: a typed text that arrives
\* in a campaign when its identical predecessor is older than the lifetime
\* of the cache is forwarded to the handler.
C35_SuppressionExpires ==
    [][(/\ conversation_active /\ InCampaign
        /\ ticks' = ticks
        /\ last_msg'.type = "message"
        /\ Expired(last_msg'.content))
       => ~dropped' /\ results' # <<>>]_vars


\* C36: between the selection of a campaign and the return to the main
\* menu at most one row is stored in the sheet for the session.
C36_OneLeadPerVisit == leads <= 1


\* the steps for which the loop of main.py has a branch outside a campaign
LoopSteps ==
    {"get_name", "get_dob", "get_email", "get_financial_concern_response",
     "get_life_stage", "get_dependents", "get_existing_coverage",
     "get_premium_budget", "campaign_selection"}

\* C37: the loop never ends the conversation by itself: between two
\* messages the conversation is active, and a campaign with a handler is
\* active or the step is one the loop has a branch for.
C37_NeverCompletedByItself ==
    /\ conversation_active
    /\ InCampaign \/ (active_campaign = None /\ step \in LoopSteps)


\* the welcome of each campaign
WelcomeOf(c) ==
    CASE c = "sgsa" -> "sgsa welcome"
      [] c = "tabung_warisan" -> "tw welcome"
      [] c = "masa_depan_anak_kita" -> "mdk welcome"
      [] c = "tabung_perubatan" -> "tp welcome"
      [] c = "perlindungan_combo" -> "pc welcome"

\* C38: the selection of a campaign starts its dialog afresh, also when
\* the connection was in that campaign before and left it at any step: the
\* first frame sent is the welcome of the campaign, and the frames sent
\* and the state the handler holds are those of a first selection.
C38_SelectionStartsAfresh ==
    [][(/\ step = "campaign_selection"
        /\ active_campaign = None
        /\ active_campaign' \in campaign_handlers)
       => LET c == active_campaign'
              first == start_campaign([Session EXCEPT !.states = EmptyDict], c,
                                      last_msg'.content, campaign_handlers, TRUE)
          IN  /\ sent' # <<>>
              /\ sent'[1].content = WelcomeOf(c)
              /\ sent' = first.sent
              /\ states'[c] = first.states[c]
              /\ current_step(c, states') \in
                     {"welcome", "welcome_response", "handle_welcome_response",
                      "check_interest_response", "after_welcome"}]_vars

\* the campaign was selected again and answered with its welcome
C38_Witness ==
    /\ InCampaign
    /\ last_msg.type = "message"
    /\ isdigit(last_msg.content)
    /\ sent # <<>>
    /\ sent[1].content = WelcomeOf(active_campaign)
    /\ current_step(active_campaign, states) \notin TerminalSteps(active_campaign)


\* C39: the answer to the question for the budget is followed by the menu
\* of campaigns as numbered buttons, whatever was answered before: a
\* session at the campaign selection has been shown its options.
C39_MenuFollowsBudget ==
    [][(step = "get_premium_budget" /\ step' = "campaign_selection")
       => \E i \in 1..Len(sent') : /\ sent'[i].buttons # <<>>
                                   /\ sent'[i].buttons[1] = "1"]_vars

====
